---- MODULE Spec2Model ----
(***************************************************************************)
(* smart_dictate: the recording-to-transcript pipeline of DictateApp.       *)
(*                                                                         *)
(* The model follows src/smart_dictate/app.py (DictateApp: the toggle      *)
(* state machine, the debounce timer of a stopped recording, the           *)
(* transcription runs, the model warmup/download tasks, the idle-unload    *)
(* timer), src/smart_dictate/audio_capture.py (AudioCapture),              *)
(* src/smart_dictate/transcription.py (the shared ModelHolder, the         *)
(* transcript record, _split_on_silence), src/smart_dictate/postprocess.py *)
(* (postprocess_text) and src/smart_dictate/hotkeys.py (HotkeyManager).    *)
(*                                                                         *)
(* Threads.  toggle_recording, set_model_override, set_model_idle_minutes, *)
(* set_hotkey, delete_downloaded_model and the event tap run on the main   *)
(* thread (event tap and menu are both attached to the main run loop), one *)
(* call after the other.  Every threading.Timer and every threading.Thread *)
(* is a process of its own: a record in a set, with a pc.  A step of a     *)
(* thread is one section under a lock, or the statements between two       *)
(* sections that read or write what other threads do: wherever the code    *)
(* releases a lock, other threads can take steps.  The main thread is      *)
(* modelled the same way: `main` is the frame of the call it is in, and a  *)
(* call that reads or writes what the threads share more than once takes   *)
(* one step for each such statement or lock section.  _model_idle_lock is  *)
(* held across the two reads of _model_idle_seconds that                   *)
(* _schedule_model_unload makes (pc "arm" of the thread inside).           *)
(*                                                                         *)
(* threading.Timer.  run() is `finished.wait(interval); if not             *)
(* finished.is_set(): function()`.  cancel() sets `finished`.  A timer is  *)
(* therefore "armed" until it passes the is_set() test (action *Fire),     *)
(* and from then on its callback runs whatever cancel() does later.        *)
(* An armed timer that is cancelled never runs and is dropped.             *)
(*                                                                         *)
(* Time.  `now` is the clock in milliseconds (time.monotonic() and         *)
(* datetime.now() advance together).  A reading of time.monotonic() is a   *)
(* Python float, the double nearest to the seconds read; the model keeps   *)
(* a reading as its milliseconds and computes with the doubles where the   *)
(* code subtracts and compares readings.                                   *)
(*                                                                         *)
(* Ghost data.  `history` records what has happened, for the properties.   *)
(* The field rec of a debounce callback and of a transcription thread is   *)
(* the recording whose pending stop the callback took under the lock; the  *)
(* code passes the path only.                                              *)
(*                                                                         *)
(* Specifications.  All of them run the same actions; they differ in the   *)
(* configurations they start from and in what the user and the clock do.   *)
(* Spec is the recording controller with its debounce timers,              *)
(* transcription threads and the startup warmup or download, the clock in  *)
(* steps of half a debounce window; BurstSpec is Spec with one more        *)
(* recording.  LoadSpec adds set_model_override, the clock in steps of a   *)
(* debounce window.  IdleSpec adds set_model_override,                     *)
(* set_model_idle_minutes and the idle timer with its handler, the clock   *)
(* in steps of one minute.  ModelSpec runs the loader and transcription    *)
(* threads on every machine, with set_model_override and                   *)
(* delete_downloaded_model.  DeliverSpec runs a transcription thread over  *)
(* every result of the inference and every end of the rewrite request;     *)
(* PasteSpec is DeliverSpec with a second recording.  HotkeySpec delivers  *)
(* keyboard events to the HotkeyManager, whose callback is                 *)
(* toggle_recording, the clock in steps of 100 ms. SplitSpec runs one call *)
(* of _split_on_silence for each buffer and each setting.  RewriteSpec     *)
(* runs one call of postprocess_text for each configuration and each end   *)
(* of the request.                                                         *)
(*                                                                         *)
(* Memory.  _total_memory_bytes is kept in KiB (total_memory_kib), so that *)
(* 16 GiB fits the 32-bit integers of TLC; _defer_warmup is derived.       *)
(*                                                                         *)
(* Files of models.  A snapshot_download that raises may have written      *)
(* files into the directory of the model by then, or not, and a rmtree     *)
(* that raises may leave some: each outcome is a step (`partial`).         *)
(***************************************************************************)
EXTENDS Integers, Sequences, FiniteSets, TLC

(* ---------------------------------------------------------------------- *)
(* Program constants                                                      *)
(* ---------------------------------------------------------------------- *)

\* self._stop_cancel_window_seconds = 0.4, in milliseconds
StopCancelWindowMs == 400

\* strftime("recording_%Y%m%d_%H%M%S.wav"): the file name changes once per second
MsPerSecond == 1000

\* _compute_model_idle_seconds: minutes * 60
SecondsPerMinute == 60

\* _default_model_idle_minutes: 15 minutes under 16 GiB
DefaultIdleMinutes == 15

\* Settings.model_id and one other model the user can select
DefaultModel == "A"
Models == {"A", "B"}

NoModel == "none"
NoPath == -1
NoTimer == 0
NoMinutes == -1
NoKeycode == -1

\* FN_DOUBLE_TAP_SECONDS = 0.2, in milliseconds
FnDoubleTapMs == 200

\* _split_on_silence: frames of 0.02 s, in milliseconds
FrameMs == 20

\* _split_on_silence: the least threshold 0.003, in thousandths
FloorRms == 3

(* ---------------------------------------------------------------------- *)
(* Bounds of the model                                                    *)
(* ---------------------------------------------------------------------- *)

\* calls of AudioCapture.start() in one behaviour of Spec
MaxRecordings == 2

\* calls of AudioCapture.start() in one behaviour of BurstSpec
MaxBurstRecordings == 3

\* user actions of LoadSpec in one behaviour: recordings started and overrides
MaxLoadEvents == 2

\* events of IdleSpec in one behaviour: recordings started, overrides, changes
\* of the idle minutes and minutes that pass, together
MaxIdleEvents == 2

\* clock steps of Spec (each half a debounce window)
MaxFineSteps == 5

\* clock steps of LoadSpec (each a debounce window)
MaxWindowSteps == 1

\* clock steps of IdleSpec (each one minute)
MaxCoarseSteps == 1

\* user actions of ModelSpec in one behaviour: recordings started and overrides
MaxModelEvents == 1

\* calls of set_model_override in one behaviour
MaxOverrides == 1

\* calls of set_model_idle_minutes in one behaviour
MaxIdleChanges == 1

\* keyboard events and set_hotkey calls of HotkeySpec in one behaviour
MaxTapEvents == 5

\* calls of set_hotkey in one behaviour
MaxHotkeyChanges == 1

\* clock steps of HotkeySpec (each half the double-tap window)
MaxTapSteps == 3

\* samples in a buffer given to _split_on_silence
MaxSamples == 5

\* calls of AudioCapture.start() in one behaviour of DeliverSpec
MaxDeliverRecordings == 1

\* calls of AudioCapture.start() in one behaviour of PasteSpec
MaxPasteRecordings == 2

\* the int16 sample value of speech, about 0.01 of full scale (silence is 0)
SpeechSample == 326

FineStepMs == StopCancelWindowMs \div 2
CoarseStepMs == SecondsPerMinute * MsPerSecond

\* minutes the settings window offers in the model (0 disables idle unload)
IdleMinuteChoices == {0, 1}

VARIABLES
    now,                 \* the clock, ms
    recording,           \* DictateApp._recording
    audio,               \* the AudioCapture object: _active, _recorder, _current_path
    pending_stop_timer,  \* DictateApp._pending_stop_timer: NoTimer or a timer id
    pending_stop_path,   \* DictateApp._pending_stop_path
    stop_timers,         \* the debounce threading.Timer objects still alive
    files,               \* audio artifacts: [path, rec, exists], one per path written
    main,                \* the frame of the call the main thread is in
    rec_seq,             \* AudioCapture.start() calls so far; they number the recordings
    runs,                \* _transcribe_and_paste threads in flight
    transcribing_count,  \* DictateApp._transcribing_count
    model_loading,       \* DictateApp._model_loading
    warmup_id,           \* DictateApp._warmup_id
    total_memory_kib,    \* DictateApp._total_memory_bytes, in KiB (NoMemory: None)
    model_override,      \* DictateApp._model_override (NoModel: None)
    downloaded,          \* model ids whose files are in models_dir()
    partial,             \* model ids whose directory holds what a failed download left
    holder_model,        \* mlx_whisper ModelHolder.model_path (NoModel: not loaded)
    tasks,               \* _warmup_model / _download_model threads in flight
    overrides,           \* set_model_override calls so far
    model_idle_minutes,  \* DictateApp._model_idle_minutes (NoMinutes: None)
    model_idle_seconds,  \* DictateApp._model_idle_seconds
    model_idle_timer,    \* DictateApp._model_idle_timer: NoTimer or a timer id
    idle_timers,         \* the idle threading.Timer objects still armed
    idle_seq,            \* idle timers created so far
    idle_changes,        \* set_model_idle_minutes calls so far
    last_model_use,      \* DictateApp._last_model_use, a clock reading in ms
    last_model_id,       \* DictateApp._last_model_id (NoModel: None)
    handlers,            \* _handle_model_idle_timeout calls in flight
    postprocess,         \* DictateApp._postprocess_enabled, _base_url, _model
    keychain,            \* is a post-processing API key stored in the keychain
    transcripts,         \* the transcript JSON files written, one per id
    clipboard,           \* the string on the general pasteboard (<<>>: none)
    pasted,              \* what each Cmd-V of paste_text found on it, in order
    hotkeys,             \* the HotkeyManager object
    tap_call,            \* _event_callback inside its call of _on_toggle
    monotonic_base,      \* what time.monotonic() returned when the app started, ms
    tap_event,           \* the event the tap delivered last
    tap_count,           \* events delivered so far
    toggles_fired,       \* calls of HotkeyManager._on_toggle so far
    hotkey_changes,      \* set_hotkey calls so far
    key_history,         \* what the keyboard has done so far (for the properties)
    split,               \* the frame of a _split_on_silence call
    rewrite,             \* the frame of a postprocess_text call
    history              \* what has happened so far (for the properties)

ctrl_vars == <<recording, audio, pending_stop_timer, pending_stop_path,
               stop_timers, files, rec_seq, main>>
run_vars == <<runs, transcribing_count>>
load_vars == <<model_loading, warmup_id, total_memory_kib, model_override, downloaded, partial,
               holder_model, tasks, overrides>>
idle_vars == <<model_idle_minutes, model_idle_seconds, model_idle_timer, idle_timers,
               idle_seq, idle_changes, last_model_use, last_model_id,
               handlers>>
post_vars == <<postprocess, keychain>>
out_vars == <<transcripts, clipboard, pasted>>
hotkey_vars == <<hotkeys, tap_call, monotonic_base, tap_event, tap_count, toggles_fired,
                 hotkey_changes, key_history>>
split_vars == <<split>>
rewrite_vars == <<rewrite>>
side_vars == <<post_vars, out_vars, hotkey_vars, split_vars, rewrite_vars>>
vars == <<now, ctrl_vars, run_vars, load_vars, idle_vars, side_vars, history>>

\* _get_total_memory_bytes() returned None
NoMemory == -1

\* 16 * 1024 * 1024 * 1024 bytes, in KiB
LowMemoryKiB == 16777216

\* A variant for comparison: the warmup is deferred up to 16 GiB inclusive
DeferWarmupInclusive(memory) == memory # NoMemory /\ memory <= LowMemoryKiB

\* `self._total_memory_bytes is not None and self._total_memory_bytes < 16 GiB`
DeferWarmup(memory) == memory # NoMemory /\ memory < LowMemoryKiB

\* DictateApp._defer_warmup, set once by __init__
defer_warmup == DeferWarmup(total_memory_kib)

(* ---------------------------------------------------------------------- *)
(* AudioCapture (audio_capture.py)                                        *)
(* ---------------------------------------------------------------------- *)

\* datetime.now().strftime("recording_%Y%m%d_%H%M%S.wav"): the file name is the
\* wall-clock time cut to whole seconds; a path is modelled by that second.
PathAt(t) == t \div MsPerSecond

NoRecorder == 0

\* AudioCapture.__init__
AudioInit == [active |-> FALSE, recorder |-> NoRecorder, current_path |-> NoPath]

\* How far AudioCapture.start() gets: "undirected" is
\* `self._output_dir.mkdir(...)` raising OSError, before anything is written;
\* "unprepared" is initWithURL_settings_error_ or prepareToRecord() failing,
\* "unstarted" is record() returning False, "started" is record() returning
\* True.  prepareToRecord() creates the file, so a recorder that was prepared
\* has made its file whether or not it starts.
StartOutcomes == {"undirected", "unprepared", "unstarted", "started"}

\* start() raised: error is "RuntimeError" or "OSError"
StartError(error, created, a) ==
    [raised |-> TRUE, error |-> error, path |-> NoPath, created |-> created, audio |-> a]

\* start() returned the path
StartPath(t, rec) ==
    [raised |-> FALSE, error |-> "none", path |-> PathAt(t), created |-> TRUE,
     audio |-> [active |-> TRUE, recorder |-> rec, current_path |-> PathAt(t)]]

\* A variant for comparison: AudioCapture.start() without `if self._active: raise`
AudioStartUnguarded(a, t, met, rec) ==
    IF met = "undirected" THEN StartError("OSError", FALSE, a)
    ELSE IF met # "started"
         THEN StartError("RuntimeError", met = "unstarted",
                         [a EXCEPT !.current_path = PathAt(t)])
         ELSE StartPath(t, rec)

\* A variant for comparison: AudioCapture.start() setting `self._active = True`
\* before the directory and the recorder are created
AudioStartActiveFirst(a, t, met, rec) ==
    IF a.active THEN StartError("RuntimeError", FALSE, a)
    ELSE IF met = "undirected"
         THEN StartError("OSError", FALSE, [a EXCEPT !.active = TRUE])
         ELSE IF met # "started"
              THEN StartError("RuntimeError", met = "unstarted",
                              [a EXCEPT !.active = TRUE, !.current_path = PathAt(t)])
              ELSE StartPath(t, rec)

\* AudioCapture.start() at time t: `met` is how far it gets, `rec` names the
\* recorder (and the recording) it would create.  The result is the raised
\* error or the returned path, whether the file of the path was created, and
\* the object after: the RuntimeError of an active capture and the OSError of
\* mkdir leave it as it was, a recorder that fails leaves _current_path set.
AudioStart(a, t, met, rec) ==
    IF a.active THEN StartError("RuntimeError", FALSE, a)
    ELSE IF met = "undirected" THEN StartError("OSError", FALSE, a)
    ELSE IF met # "started"
         THEN StartError("RuntimeError", met = "unstarted",
                         [a EXCEPT !.current_path = PathAt(t)])
         ELSE StartPath(t, rec)

\* A variant for comparison: AudioCapture.stop() that forgets `self._active = False`
AudioStopStaysActive(a) == [path |-> a.current_path, audio |-> a]

\* AudioCapture.stop()
AudioStop(a) ==
    IF ~a.active \/ a.recorder = NoRecorder
    THEN [path |-> a.current_path, audio |-> a]
    ELSE [path |-> a.current_path, audio |-> [a EXCEPT !.active = FALSE]]

(* ---------------------------------------------------------------------- *)
(* DictateApp: properties and small helpers                               *)
(* ---------------------------------------------------------------------- *)

\* DictateApp.current_model_id
CurrentModelId == IF model_override # NoModel THEN model_override ELSE DefaultModel

\* DictateApp.transcribing
Transcribing == transcribing_count > 0

\* time.monotonic(): the reading, in ms
Monotonic == monotonic_base + now

\* threading.Timer.cancel() on timer `id` of the set `ts`: an armed timer never
\* runs; one whose callback has started is not stopped.
TimerCancel(ts, id) == {t \in ts : t.id # id \/ t.fired}

\* The audio artifacts.  `files` holds one entry per path ever written:
\* the recording written there last and whether the file still exists.
FileExists(fs, path) == \E f \in fs : f.path = path /\ f.exists

\* the recording a path names: the one written there last (0: none ever)
RecAt(fs, path) ==
    IF \E f \in fs : f.path = path
    THEN (CHOOSE f \in fs : f.path = path).rec
    ELSE 0

\* Path.unlink() as _cancel_pending_transcription calls it: a missing file is
\* FileNotFoundError, which is passed over; `ok` is whether the file system
\* lets the file go, and when it does not (PermissionError and the like) the
\* exception is logged as a warning and the file stays
Unlink(fs, path, ok) ==
    IF ok
    THEN {IF f.path = path THEN [f EXCEPT !.exists = FALSE] ELSE f : f \in fs}
    ELSE fs

\* AVAudioRecorder creates the file at `path`, replacing one of the same name
CreateFile(fs, path, rec) ==
    {f \in fs : f.path # path} \cup {[path |-> path, rec |-> rec, exists |-> TRUE]}

RecIds == 0..(MaxBurstRecordings + MaxLoadEvents + MaxIdleEvents + MaxModelEvents)

\* What the properties need to know of the past: the recordings whose pending
\* stop was cancelled, those whose own debounce callback has run, how many
\* transcription threads were started for each, the branch the last
\* toggle_recording took, and how often the idle timeout has unloaded the model.
HistoryInit == [cancelled |-> {},
                matured |-> {},
                dispatched |-> [r \in RecIds |-> 0],
                last_toggle |-> "none",
                unloaded |-> 0]

Toggled(branch) == [history EXCEPT !.last_toggle = branch]

(* ---------------------------------------------------------------------- *)
(* Python floats: the readings of time.monotonic()                        *)
(* ---------------------------------------------------------------------- *)

\* A float is an IEEE 754 double: 53 significant bits, results rounded to the
\* nearest, ties to even.  A non-negative double is kept here as five limbs,
\* <<whole part, four limbs of 16 fraction bits>>: every double from 0.001 up
\* has its last bit at 2^-62 or above, and so have the differences of two of
\* them.

RECURSIVE BitLength(_)
BitLength(v) == IF v = 0 THEN 0 ELSE 1 + BitLength(v \div 2)

\* the limbs from the j-th up brought back into 0..65535 by carries and borrows
RECURSIVE Carried(_, _)
Carried(x, j) ==
    IF j = 1 THEN x
    ELSE IF x[j] >= 65536
         THEN Carried([x EXCEPT ![j] = @ - 65536, ![j - 1] = @ + 1], j - 1)
         ELSE IF x[j] < 0
              THEN Carried([x EXCEPT ![j] = @ + 65536, ![j - 1] = @ - 1], j - 1)
              ELSE Carried(x, j - 1)

\* the position of the leading bit of x, counted from the last fraction bit
\* (-1 for zero)
LeadingBit(x) ==
    IF \A j \in 1..5 : x[j] = 0 THEN -1
    ELSE LET i == CHOOSE j \in 1..5 : x[j] # 0 /\ \A h \in 1..(j - 1) : x[h] = 0
         IN  16 * (5 - i) + BitLength(x[i]) - 1

\* x rounded to 53 significant bits, to the nearest and ties to even;
\* `inexact` says that x was cut off above a remainder that is not zero
Round53(x, inexact) ==
    LET c == LeadingBit(x) - 52
    IN  IF c <= 0 THEN x
        ELSE LET k == 5 - (c \div 16)
                 o == c % 16
                 kg == 5 - ((c - 1) \div 16)
                 og == (c - 1) % 16
                 guard == (x[kg] \div 2^og) % 2
                 rest == \/ x[kg] % 2^og # 0
                         \/ \E j \in (kg + 1)..5 : x[j] # 0
                         \/ inexact
                 lsb == (x[k] \div 2^o) % 2
                 up == guard = 1 /\ (rest \/ lsb = 1)
             IN  Carried([j \in 1..5 |->
                            IF j < k THEN x[j]
                            ELSE IF j = k
                                 THEN (x[j] \div 2^o) * 2^o
                                      + (IF up THEN 2^o ELSE 0)
                                 ELSE 0], 5)

\* r / 1000 for r < 1000, to j limbs of 16 bits, and whether anything is left
RECURSIVE Thousandths(_, _)
Thousandths(r, j) ==
    IF j = 0 THEN [limbs |-> <<>>, inexact |-> r # 0]
    ELSE LET rest == Thousandths((r * 65536) % MsPerSecond, j - 1)
         IN  [limbs |-> <<(r * 65536) \div MsPerSecond>> \o rest.limbs,
              inexact |-> rest.inexact]

\* the float of a clock reading of ms milliseconds: the double nearest to
\* ms / 1000
Float(ms) ==
    LET fraction == Thousandths(ms % MsPerSecond, 4)
    IN  Round53(<<ms \div MsPerSecond>> \o fraction.limbs, fraction.inexact)

\* x < y
FloatLess(x, y) ==
    \E j \in 1..5 : x[j] < y[j] /\ \A i \in 1..(j - 1) : x[i] = y[i]

\* x - y as Python computes it: the sign and the magnitude of the double
\* nearest to the difference
FloatMinus(x, y) ==
    IF FloatLess(x, y)
    THEN [negative |-> TRUE,
          magnitude |-> Round53(Carried([j \in 1..5 |-> y[j] - x[j]], 5), FALSE)]
    ELSE [negative |-> FALSE,
          magnitude |-> Round53(Carried([j \in 1..5 |-> x[j] - y[j]], 5), FALSE)]

\* `later - earlier < seconds` on two clock readings in ms, seconds an int
ElapsedUnder(later, earlier, seconds) ==
    LET elapsed == FloatMinus(Float(later), Float(earlier))
    IN  elapsed.negative \/ FloatLess(elapsed.magnitude, <<seconds, 0, 0, 0, 0>>)

\* `later - earlier <= window` on two clock readings in ms, window a float
ElapsedWithin(later, earlier, window) ==
    LET elapsed == FloatMinus(Float(later), Float(earlier))
    IN  elapsed.negative \/ ~FloatLess(window, elapsed.magnitude)

\* FN_DOUBLE_TAP_SECONDS = 0.2, the float
FnDoubleTapSeconds == Float(FnDoubleTapMs)

(* ---------------------------------------------------------------------- *)
(* DictateApp: the debounce of a stopped recording                        *)
(* ---------------------------------------------------------------------- *)

\* _schedule_transcription(audio_path), all of it under _pending_stop_lock.
\* A timer is named by the recorder whose stop created it; its callback
\* begins at the lock section of _finalize_transcription (pc "lock") and has
\* taken no pending stop yet (rec 0).
ScheduleTranscription(audio_path) ==
    LET live == IF pending_stop_timer # NoTimer
                THEN TimerCancel(stop_timers, pending_stop_timer)
                ELSE stop_timers
        timer == [id |-> audio.recorder,
                  path |-> audio_path,
                  deadline |-> now + StopCancelWindowMs,
                  fired |-> FALSE,
                  pc |-> "lock",
                  rec |-> 0]
    IN  /\ pending_stop_path' = audio_path
        /\ pending_stop_timer' = timer.id
        /\ stop_timers' = live \cup {timer}

\* the test of _cancel_pending_transcription that makes it return False
HasPendingStop == pending_stop_timer # NoTimer /\ pending_stop_path # NoPath

\* the main thread is in no call.  Inside one, pc is where the call has got
\* to; timer and path are the locals of _cancel_pending_transcription, path
\* also the local of toggle_recording, model the argument of
\* set_model_override.
NoCall == [pc |-> "none", timer |-> NoTimer, path |-> NoPath, model |-> NoModel]

\* the main thread inside a call, at pc
MainAt(pc) == [NoCall EXCEPT !.pc = pc]

\* the main thread is between two events: toggle_recording, the menu actions
\* and the event tap all run on it, one after the other
MainIdle == main = NoCall

\* _event_callback is in no call of _on_toggle.  Inside one, `after` is the
\* monitor as the callback leaves it once the call has returned: the branch
\* of the function modifier writes _fn_last_press and _fn_down after the call.
NoTapCall == [pc |-> "none", after |-> <<>>]
InToggle(after) == [pc |-> "toggle", after |-> <<after>>]

\* toggle_recording returns to its caller: to the run loop, or to
\* _event_callback, which goes on after `self._on_toggle()` to its
\* `return event`
ToggleReturned ==
    /\ hotkeys' = IF tap_call.pc = "toggle" THEN tap_call.after[1] ELSE hotkeys
    /\ tap_call' = NoTapCall
    /\ UNCHANGED <<monotonic_base, tap_event, tap_count, toggles_fired, hotkey_changes,
                   key_history>>

\* _cancel_pending_transcription when it returns True, the section under
\* _pending_stop_lock: the pending stop is taken and the lock released
CancelPendingTranscription ==
    /\ pending_stop_timer' = NoTimer
    /\ pending_stop_path' = NoPath
    /\ main' = [NoCall EXCEPT !.pc = "cancel", !.timer = pending_stop_timer,
                               !.path = pending_stop_path]
    /\ history' = [Toggled("cancel") EXCEPT
                     !.cancelled = @ \cup {RecAt(files, pending_stop_path)}]
    /\ UNCHANGED <<recording, audio, stop_timers, files, rec_seq>>

\* _cancel_pending_transcription after the lock: `timer.cancel()`
CancelTimer ==
    /\ main.pc = "cancel"
    /\ stop_timers' = TimerCancel(stop_timers, main.timer)
    /\ main' = [main EXCEPT !.pc = "unlink"]
    /\ UNCHANGED <<now, side_vars, recording, audio, pending_stop_timer, pending_stop_path,
                   files, rec_seq, run_vars, load_vars, idle_vars, history>>

\* _cancel_pending_transcription: `audio_path.unlink()` in its try/except, and
\* the return to the run loop
CancelUnlink(ok) ==
    /\ main.pc = "unlink"
    /\ files' = Unlink(files, main.path, ok)
    /\ main' = NoCall
    /\ ToggleReturned
    /\ UNCHANGED <<now, post_vars, out_vars, split_vars, rewrite_vars, recording, audio,
                   pending_stop_timer, pending_stop_path, stop_timers, rec_seq, run_vars,
                   load_vars, idle_vars, history>>

\* Variants of that test, for comparison with the code's:
\* _finalize_transcription without the comparison with _pending_stop_path
FinalizeMatchesAlways(audio_path) == TRUE

\* _finalize_transcription with the comparison inverted
FinalizeMatchesInverted(audio_path) == pending_stop_path # audio_path

\* the test of _finalize_transcription(audio_path) under the lock
FinalizeMatches(audio_path) == pending_stop_path = audio_path

\* a debounce timer passes `if not self.finished.is_set()` after its interval
StopTimerFire(t) ==
    /\ t \in stop_timers
    /\ ~t.fired
    /\ now >= t.deadline
    /\ stop_timers' = (stop_timers \ {t}) \cup {[t EXCEPT !.fired = TRUE]}
    /\ UNCHANGED <<now, side_vars, recording, audio, pending_stop_timer, pending_stop_path,
                   files, rec_seq, main, run_vars, load_vars, idle_vars, history>>

\* _finalize_transcription(audio_path), the callback of timer t: the section
\* under _pending_stop_lock.  A callback whose path is the pending one takes
\* the pending stop (rec: the recording that pending stop is of) and goes on
\* to _start_transcription; any other returns.
FinalizeTranscription(t) ==
    /\ t \in stop_timers
    /\ t.fired /\ t.pc = "lock"
    /\ IF FinalizeMatches(t.path)
       THEN /\ pending_stop_timer' = NoTimer
            /\ pending_stop_path' = NoPath
            /\ stop_timers' = (stop_timers \ {t}) \cup
                   {[t EXCEPT !.pc = "start", !.rec = RecAt(files, t.path)]}
       ELSE /\ stop_timers' = stop_timers \ {t}
            /\ UNCHANGED <<pending_stop_timer, pending_stop_path>>
    /\ history' = [history EXCEPT !.matured = @ \cup {t.id}]
    /\ UNCHANGED <<now, side_vars, recording, audio, files, rec_seq, main,
                   run_vars, load_vars, idle_vars>>

\* the PostprocessConfig of a thread that has not built one, and the
\* attributes _build_postprocess_config reads, in the order it reads them
NoConfig == [enabled |-> FALSE, base_url |-> "", model |-> ""]
ConfigFields == <<"enabled", "base_url", "model">>

\* the thread _start_transcription(audio_path) starts, running
\* _transcribe_and_paste(audio_path); rec is the recording whose pending stop
\* the callback took
NewRun(audio_path, rec) ==
    [path |-> audio_path, rec |-> rec, pc |-> "begin", model |-> NoModel, text |-> <<>>,
     original_text |-> <<>>, polished_text |-> <<>>, config |-> NoConfig,
     failed |-> FALSE]

\* _finalize_transcription after the lock: _start_transcription(audio_path),
\* and the callback returns
StartTranscription(t) ==
    /\ t \in stop_timers
    /\ t.pc = "start"
    /\ stop_timers' = stop_timers \ {t}
    /\ runs' = runs \cup {NewRun(t.path, t.rec)}
    /\ history' = [history EXCEPT !.dispatched[t.rec] = @ + 1]
    /\ UNCHANGED <<now, side_vars, recording, audio, pending_stop_timer, pending_stop_path,
                   files, rec_seq, main, transcribing_count, load_vars, idle_vars>>

(* ---------------------------------------------------------------------- *)
(* DictateApp.toggle_recording                                            *)
(* ---------------------------------------------------------------------- *)

\* the branch `if self._recording:` of toggle_recording up to the call of
\* _schedule_transcription: `self._recording = False` and `self._audio.stop()`
StopRecording ==
    LET res == AudioStop(audio)
    IN  /\ recording' = FALSE
        /\ audio' = res.audio
        /\ main' = IF res.path # NoPath
                   THEN [NoCall EXCEPT !.pc = "pending", !.path = res.path]
                   ELSE NoCall
        /\ history' = Toggled("stop")
        /\ UNCHANGED <<pending_stop_timer, pending_stop_path, stop_timers, files, rec_seq>>

\* `self._schedule_transcription(path)` of toggle_recording: the section under
\* _pending_stop_lock, and the return to the run loop
StopSchedule ==
    /\ main.pc = "pending"
    /\ ScheduleTranscription(main.path)
    /\ main' = NoCall
    /\ ToggleReturned
    /\ UNCHANGED <<now, post_vars, out_vars, split_vars, rewrite_vars, recording, audio, files,
                   rec_seq, run_vars, load_vars, idle_vars, history>>

\* the branch of toggle_recording a call of start() ends in: "start" when it
\* returned, "start_failed" when its RuntimeError was caught and logged,
\* "start_propagated" when its exception was not caught
StartBranch(res) ==
    IF ~res.raised THEN "start"
    ELSE IF res.error = "RuntimeError" THEN "start_failed" ELSE "start_propagated"

\* A variant for comparison: the `else:` branch of toggle_recording setting
\* _recording outside the `try`
StartRecordingUnguarded(met, limit) ==
    LET res == AudioStart(audio, now, met, rec_seq + 1)
    IN  /\ rec_seq < limit
        /\ rec_seq' = rec_seq + 1
        /\ audio' = res.audio
        /\ files' = IF res.created THEN CreateFile(files, PathAt(now), rec_seq + 1)
                    ELSE files
        /\ main' = MainAt("started")
        /\ history' = Toggled(StartBranch(res))
        /\ UNCHANGED <<recording, pending_stop_timer, pending_stop_path, stop_timers>>

\* the branch `else:` of toggle_recording up to `if path is not None`:
\* `self._audio.start()` in its try/except.  The `except RuntimeError` logs
\* the error and the call returns; any other exception, the OSError of mkdir,
\* leaves toggle_recording through its caller, before `self._recording = True`
\* and update_indicator().  A recorder that was prepared has created its
\* file.  `limit` bounds the calls of start(), which number the recorders.
StartRecording(met, limit) ==
    LET res == AudioStart(audio, now, met, rec_seq + 1)
    IN  /\ rec_seq < limit
        /\ rec_seq' = rec_seq + 1
        /\ audio' = res.audio
        /\ files' = IF res.created THEN CreateFile(files, PathAt(now), rec_seq + 1)
                    ELSE files
        /\ main' = IF res.raised THEN NoCall ELSE MainAt("started")
        /\ history' = Toggled(StartBranch(res))
        /\ UNCHANGED <<recording, pending_stop_timer, pending_stop_path, stop_timers>>

\* `self._recording = True` of toggle_recording, and the return to the run loop
StartedRecording ==
    /\ main.pc = "started"
    /\ recording' = TRUE
    /\ main' = NoCall
    /\ ToggleReturned
    /\ UNCHANGED <<now, post_vars, out_vars, split_vars, rewrite_vars, audio,
                   pending_stop_timer, pending_stop_path, stop_timers, files, rec_seq,
                   run_vars, load_vars, idle_vars, history>>

\* A variant for comparison: toggle_recording without `if self._model_loading: return`
IgnoreToggleMissing == StartRecording("started", MaxLoadEvents - overrides)

\* toggle_recording with `if self._model_loading: return`
IgnoreToggle ==
    /\ history' = Toggled("ignored")
    /\ UNCHANGED <<recording, audio, pending_stop_timer, pending_stop_path,
                   stop_timers, files, rec_seq, main>>

\* does toggle_recording(), called now, end in an exception it does not
\* catch: it gets to start(), and start() raises something else than
\* RuntimeError
ToggleRaises(met) ==
    /\ ~recording
    /\ ~HasPendingStop
    /\ ~model_loading
    /\ AudioStart(audio, now, met, rec_seq + 1).error = "OSError"

\* toggle_recording() up to its first write of what the threads read: up to
\* the end of the lock section of _cancel_pending_transcription when it
\* cancels a pending stop, up to the return when it is ignored or start()
\* raises, up to the return of stop() or of start() otherwise.  `met` is how
\* far start() gets, `limit` the number of recordings the behaviour may
\* start.
ToggleRecording(met, limit) ==
    /\ MainIdle
    /\ IF ~recording
       THEN IF HasPendingStop
            THEN CancelPendingTranscription
            ELSE IF model_loading
                 THEN IgnoreToggle
                 ELSE StartRecording(met, limit)
       ELSE StopRecording
    /\ UNCHANGED <<now, post_vars, out_vars, split_vars, rewrite_vars, run_vars, load_vars,
                   idle_vars>>

(* ---------------------------------------------------------------------- *)
(* DictateApp: idle unload of the model                                   *)
(* ---------------------------------------------------------------------- *)

\* _default_model_idle_minutes
DefaultModelIdleMinutes == IF defer_warmup THEN DefaultIdleMinutes ELSE 0

\* _compute_model_idle_seconds(minutes)
ComputeModelIdleSeconds(minutes) ==
    LET m == IF minutes = NoMinutes THEN DefaultModelIdleMinutes ELSE minutes
    IN  IF m <= 0 THEN 0 ELSE m * SecondsPerMinute

\* a thread is inside `with self._model_idle_lock` of _schedule_model_unload,
\* between its two reads of _model_idle_seconds
IdleLockHeld ==
    \/ \E r \in runs : r.pc = "arm"
    \/ \E t \in tasks : t.pc = "arm"
    \/ \E h \in handlers : h.pc = "arm"
    \/ main.pc = "arm"

\* `with self._model_idle_lock:` can be entered
IdleLockFree == ~IdleLockHeld

\* A variant for comparison: _schedule_model_unload without the cancel()
ScheduleModelUnloadKeepsOld ==
    /\ IdleLockFree
    /\ model_idle_timer' = NoTimer
    /\ idle_timers' = idle_timers
    /\ idle_seq' = idle_seq

\* _schedule_model_unload from `with self._model_idle_lock:` to its test of
\* _model_idle_seconds: the timer there is is cancelled and forgotten
ScheduleModelUnload ==
    /\ IdleLockFree
    /\ model_idle_timer' = NoTimer
    /\ idle_timers' = IF model_idle_timer # NoTimer
                      THEN {t \in idle_timers : t.id # model_idle_timer}
                      ELSE idle_timers
    /\ idle_seq' = idle_seq

\* `if self._model_idle_seconds <= 0: return`: the pc of the calling thread
\* after the test, `next` being where it goes on after _schedule_model_unload
AfterSchedule(next) == IF model_idle_seconds <= 0 THEN next ELSE "arm"

\* the rest of _schedule_model_unload:
\* `threading.Timer(self._model_idle_seconds, ...)`, which reads the threshold
\* again, the timer stored and started, and the lock released
ArmModelUnload ==
    /\ model_idle_timer' = idle_seq + 1
    /\ idle_timers' = idle_timers \cup
                         {[id |-> idle_seq + 1,
                           deadline |-> now + model_idle_seconds * MsPerSecond]}
    /\ idle_seq' = idle_seq + 1

\* _mark_model_used(model_id): the first section under _model_idle_lock.  The
\* lock is released before _schedule_model_unload() takes it again, which is
\* another step of the calling thread.
MarkModelUsed(model_id) ==
    /\ IdleLockFree
    /\ last_model_use' = Monotonic
    /\ last_model_id' = model_id
    /\ UNCHANGED <<model_idle_timer, idle_timers, idle_seq>>

\* set_model_idle_minutes(minutes) up to the return of _save_config_state:
\* _model_idle_minutes and _model_idle_seconds are written, under no lock, and
\* the configuration is saved; when save_config raises (`saved` is false) the
\* call ends there, before _schedule_model_unload
SetModelIdleMinutes(minutes, saved) ==
    LET m == IF minutes # NoMinutes /\ minutes < 0 THEN 0 ELSE minutes
    IN  /\ MainIdle
        /\ idle_changes < MaxIdleChanges
        /\ idle_changes' = idle_changes + 1
        /\ model_idle_minutes' = m
        /\ model_idle_seconds' = ComputeModelIdleSeconds(m)
        /\ main' = IF saved THEN MainAt("schedule") ELSE NoCall
        /\ UNCHANGED <<now, side_vars, recording, audio, pending_stop_timer,
                       pending_stop_path, stop_timers, files, rec_seq, run_vars,
                       load_vars, model_idle_timer, idle_timers, idle_seq,
                       last_model_use, last_model_id, handlers, history>>

\* what a step of the main thread in _schedule_model_unload leaves alone
MainScheduleFrame ==
    UNCHANGED <<now, side_vars, recording, audio, pending_stop_timer, pending_stop_path,
                stop_timers, files, rec_seq, run_vars, load_vars, model_idle_minutes,
                model_idle_seconds, idle_changes, last_model_use, last_model_id,
                handlers, history>>

\* set_model_idle_minutes: `self._schedule_model_unload()` up to its test
MainSchedule ==
    /\ main.pc = "schedule"
    /\ ScheduleModelUnload
    /\ main' = IF model_idle_seconds <= 0 THEN NoCall ELSE MainAt("arm")
    /\ MainScheduleFrame

\* set_model_idle_minutes: the rest of _schedule_model_unload, and the return
MainArm ==
    /\ main.pc = "arm"
    /\ ArmModelUnload
    /\ main' = NoCall
    /\ MainScheduleFrame

\* the idle timer passes `if not self.finished.is_set()` after its interval:
\* _handle_model_idle_timeout starts
IdleTimerFire(t) ==
    /\ t \in idle_timers
    /\ now >= t.deadline
    /\ idle_timers' = idle_timers \ {t}
    /\ handlers' = handlers \cup {[id |-> t.id, pc |-> "lock",
                                   last_use |-> 0, last_model_id |-> NoModel]}
    /\ UNCHANGED <<now, side_vars, ctrl_vars, run_vars, load_vars, model_idle_minutes,
                   model_idle_seconds, model_idle_timer, idle_seq, idle_changes,
                   last_model_use, last_model_id, history>>

Moved(h, pc) == (handlers \ {h}) \cup {[h EXCEPT !.pc = pc]}

\* the tests of _handle_model_idle_timeout, each as the code reads it
IdleDisabled == model_idle_seconds <= 0
IdleTooEarly(h) == ElapsedUnder(Monotonic, h.last_use, model_idle_seconds)

\* the three operands of `self._recording or self.transcribing or
\* self._model_loading`, each read when the ones before it were false
IdleRecording == recording
IdleTranscribing == Transcribing
IdleLoading == model_loading
IdleOtherModel(h) == h.last_model_id # CurrentModelId

\* unload_model(model_id): the test made before taking _MODEL_LOAD_LOCK
UnloadNothing(model_id) == holder_model = NoModel \/ holder_model # model_id

\* _handle_model_idle_timeout: the section under _model_idle_lock and the
\* `if last_model_id is None` after it
IdleLocked(h) ==
    /\ h \in handlers /\ h.pc = "lock"
    /\ IdleLockFree
    /\ IF IdleDisabled \/ last_model_id = NoModel
       THEN handlers' = handlers \ {h}
       ELSE handlers' = (handlers \ {h}) \cup
                {[h EXCEPT !.pc = "time", !.last_use = last_model_use,
                           !.last_model_id = last_model_id]}
    /\ UNCHANGED <<now, side_vars, ctrl_vars, run_vars, load_vars, model_idle_minutes,
                   model_idle_seconds, model_idle_timer, idle_timers, idle_seq,
                   idle_changes, last_model_use, last_model_id, history>>

\* A variant for comparison: a test that declines with a bare `return`
IdleTestWithoutReschedule(h, pc, declines, next) ==
    /\ h \in handlers /\ h.pc = pc
    /\ handlers' = IF declines THEN handlers \ {h} ELSE Moved(h, next)
    /\ UNCHANGED <<now, side_vars, ctrl_vars, run_vars, load_vars, model_idle_minutes,
                   model_idle_seconds, idle_changes, model_idle_timer, idle_timers,
                   idle_seq, last_model_use, last_model_id, history>>

\* a test of _handle_model_idle_timeout: it declines, going on to
\* `self._schedule_model_unload(); return`, or goes on to pc `next`
IdleTest(h, pc, declines, next) ==
    /\ h \in handlers /\ h.pc = pc
    /\ handlers' = Moved(h, IF declines THEN "reschedule" ELSE next)
    /\ UNCHANGED <<now, side_vars, ctrl_vars, run_vars, load_vars, model_idle_minutes,
                   model_idle_seconds, idle_changes, model_idle_timer, idle_timers,
                   idle_seq, last_model_use, last_model_id, history>>

\* `if time.monotonic() - last_use < self._model_idle_seconds`
IdleTimeCheck(h) == IdleTest(h, "time", IdleTooEarly(h), "busy")

\* `if self._recording or self.transcribing or self._model_loading`: the
\* read of _recording, the read of the counter under _transcribing_lock (the
\* property `transcribing`) and the read of _model_loading, one after the other
IdleBusyCheck(h) == IdleTest(h, "busy", IdleRecording, "transcribing")
IdleTranscribingCheck(h) == IdleTest(h, "transcribing", IdleTranscribing, "model_loading")
IdleLoadingCheck(h) == IdleTest(h, "model_loading", IdleLoading, "model")

\* `if last_model_id != self.current_model_id`
IdleModelCheck(h) == IdleTest(h, "model", IdleOtherModel(h), "unload")

\* `self._schedule_model_unload(); return` of a test that declined, up to the
\* test of the threshold as it is by now; with no threshold the handler ends
IdleReschedule(h) ==
    /\ h \in handlers /\ h.pc = "reschedule"
    /\ ScheduleModelUnload
    /\ handlers' = IF model_idle_seconds <= 0 THEN handlers \ {h} ELSE Moved(h, "arm")
    /\ UNCHANGED <<now, side_vars, ctrl_vars, run_vars, load_vars, model_idle_minutes,
                   model_idle_seconds, idle_changes, last_model_use, last_model_id,
                   history>>

\* the rest of that _schedule_model_unload, and the handler ends
IdleArm(h) ==
    /\ h \in handlers /\ h.pc = "arm"
    /\ ArmModelUnload
    /\ handlers' = handlers \ {h}
    /\ UNCHANGED <<now, side_vars, ctrl_vars, run_vars, load_vars, model_idle_minutes,
                   model_idle_seconds, idle_changes, last_model_use, last_model_id,
                   history>>

\* unload_model(last_model_id) up to the `with _MODEL_LOAD_LOCK`
IdleUnloadCheck(h) ==
    /\ h \in handlers /\ h.pc = "unload"
    /\ handlers' = IF UnloadNothing(h.last_model_id)
                   THEN handlers \ {h}
                   ELSE Moved(h, "clear")
    /\ UNCHANGED <<now, side_vars, ctrl_vars, run_vars, load_vars, model_idle_minutes,
                   model_idle_seconds, model_idle_timer, idle_timers, idle_seq,
                   idle_changes, last_model_use, last_model_id, history>>

(* ---------------------------------------------------------------------- *)
(* Post-processing (postprocess.py) and the transcript record             *)
(* ---------------------------------------------------------------------- *)

\* A text is a sequence of tokens: words, " " for a run of white space, and the
\* two delimiter tags.  <<>> is the empty string.
OpenTag == "<transcript>"
CloseTag == "</transcript>"
Blank == " "

\* an optional value: <<>> for None or a missing key, <<v>> for v
Absent == <<>>
Some(v) == <<v>>

\* PostprocessConfig(): base_url and model when the app has none of its own
DefaultBaseUrl == "https://api.openai.com"
DefaultPostprocessModel == "gpt-4o-mini"

\* str.strip() on a text
RECURSIVE LStrip(_)
LStrip(text) ==
    IF text # <<>> /\ Head(text) = Blank THEN LStrip(Tail(text)) ELSE text

RECURSIVE RStrip(_)
RStrip(text) ==
    IF text # <<>> /\ text[Len(text)] = Blank
    THEN RStrip(SubSeq(text, 1, Len(text) - 1))
    ELSE text

Strip(text) == RStrip(LStrip(text))

\* re.sub(r"</?transcript>", "", text, flags=re.IGNORECASE)
IsTag(token) == token \in {OpenTag, CloseTag}
RemoveTags(text) == SelectSeq(text, LAMBDA token : ~IsTag(token))

\* _strip_transcript_wrapper(text)
StripTranscriptWrapper(text) ==
    LET stripped == Strip(RemoveTags(text))
    IN  IF stripped # <<>> THEN stripped ELSE text

\* _extract_response_text(response): response.choices is the "choices" list, each
\* choice with its message content and its flat text, both optional
ExtractResponseText(response) ==
    IF response.choices = <<>>
    THEN <<>>
    ELSE LET first == response.choices[1]
         IN  IF first.message # Absent
             THEN first.message[1]
             ELSE IF first.text # Absent THEN first.text[1] ELSE <<>>

\* _build_chat_completions_url(base_url) raises on a base URL that is empty
\* after strip()
BaseUrlEmpty(base_url) == base_url \in {"", Blank}

\* load_config: postprocess_base_url.strip() when that is not empty, None
\* ("") otherwise; __init__ stores it as _postprocess_base_url
LoadedBaseUrl(value) ==
    LET stripped == Strip(value)
    IN  IF stripped # <<>> THEN stripped[1] ELSE ""

\* _build_postprocess_config()
BuildPostprocessConfig ==
    [enabled |-> postprocess.enabled,
     base_url |-> IF postprocess.base_url = "" THEN DefaultBaseUrl
                  ELSE postprocess.base_url,
     model |-> IF postprocess.model = "" THEN DefaultPostprocessModel
               ELSE postprocess.model]

\* no reply: the request was not sent
Unanswered == [kind |-> "none", choices |-> <<>>]

Raised == [raised |-> TRUE, text |-> <<>>]
Returned(text) == [raised |-> FALSE, text |-> text]

\* A variant for comparison: postprocess_text without `if not config.model`
PostprocessTextModelUnchecked(text, config, api_key, reply) ==
    IF ~config.enabled THEN Returned(text)
    ELSE IF ~api_key THEN Raised
    ELSE IF reply.kind # "json" THEN Raised
    ELSE Returned(text)

\* postprocess_text(text, config); api_key is whether get_postprocess_api_key()
\* finds a key, reply what the HTTP request comes back with: kind "json" is a
\* decoded body, every other kind an error _post_json or urlopen raises
PostprocessText(text, config, api_key, reply) ==
    IF ~config.enabled THEN Returned(text)
    ELSE IF ~api_key THEN Raised
    ELSE IF config.model = "" THEN Raised
    ELSE IF BaseUrlEmpty(config.base_url) THEN Raised
    ELSE IF reply.kind # "json" THEN Raised
    ELSE LET output == ExtractResponseText(reply)
         IN  IF output = <<>> THEN Raised
             ELSE Returned(StripTranscriptWrapper(output))

\* A variant for comparison: a failed post-processing leaves no text
RewrittenOrNothing(text, result) == IF result.raised THEN <<>> ELSE result.text

\* `text` after the try/except around postprocess_text in _transcribe_and_paste
Rewritten(text, result) == IF result.raised THEN text ELSE result.text

\* no call in progress
NoRewrite == [pc |-> "idle"]

\* postprocess_text(text, config) is called; `reply` is what the request will
\* meet if it is sent, api_key what get_postprocess_api_key() found once it
\* was called
RewriteCall(text, config, reply) ==
    [pc |-> "called", text |-> text, config |-> config, reply |-> reply,
     api_key |-> Absent, requested |-> FALSE, result |-> Returned(<<>>)]

\* postprocess_text gets as far as _post_json
RequestSent(config, api_key) ==
    /\ config.enabled
    /\ api_key
    /\ config.model # ""
    /\ ~BaseUrlEmpty(config.base_url)

RewriteFrame ==
    UNCHANGED <<now, ctrl_vars, run_vars, load_vars, idle_vars, post_vars, out_vars,
                hotkey_vars, split_vars, history>>

\* postprocess_text up to _post_json: it returns or raises before the request,
\* or sends it.  The keychain is read here, once, when the call is enabled.
RewriteSend ==
    LET api_key == IF rewrite.config.enabled THEN Some(keychain) ELSE Absent
    IN  /\ rewrite.pc = "called"
        /\ rewrite' = IF RequestSent(rewrite.config, keychain)
                      THEN [rewrite EXCEPT !.pc = "requested", !.requested = TRUE,
                                           !.api_key = api_key]
                      ELSE [rewrite EXCEPT
                               !.pc = "done",
                               !.api_key = api_key,
                               !.result = PostprocessText(rewrite.text, rewrite.config,
                                                          keychain, rewrite.reply)]
        /\ RewriteFrame

\* the request ends, and postprocess_text with it: the key is the one read
\* before the request
RewriteReceive ==
    /\ rewrite.pc = "requested"
    /\ rewrite' = [rewrite EXCEPT
                      !.pc = "done",
                      !.result = PostprocessText(rewrite.text, rewrite.config,
                                                 rewrite.api_key[1], rewrite.reply)]
    /\ RewriteFrame

\* what a setter of the post-processing leaves alone, beside post_vars
SetterFrame ==
    UNCHANGED <<now, ctrl_vars, run_vars, load_vars, idle_vars, out_vars, hotkey_vars,
                split_vars, rewrite_vars, history>>

\* set_postprocess_enabled(enabled), from the settings window
SetPostprocessEnabled(enabled) ==
    /\ MainIdle
    /\ postprocess' = [postprocess EXCEPT !.enabled = enabled]
    /\ UNCHANGED keychain
    /\ SetterFrame

\* set_postprocess_base_url(base_url), "" for None
SetPostprocessBaseUrl(base_url) ==
    /\ MainIdle
    /\ postprocess' = [postprocess EXCEPT !.base_url = base_url]
    /\ UNCHANGED keychain
    /\ SetterFrame

\* set_postprocess_model(model), "" for None
SetPostprocessModel(model) ==
    /\ MainIdle
    /\ postprocess' = [postprocess EXCEPT !.model = model]
    /\ UNCHANGED keychain
    /\ SetterFrame

\* set_postprocess_api_key(api_key) with a key that is not empty:
\* `security add-generic-password` stores it (`saved`) or the call raises
SetPostprocessApiKey(saved) ==
    /\ MainIdle
    /\ keychain' = (keychain \/ saved)
    /\ UNCHANGED postprocess
    /\ SetterFrame

\* delete_postprocess_api_key(), called between two events of the main thread
\* as set_postprocess_api_key is: `security delete-generic-password` removes
\* the key (`removed`), or it fails and the CalledProcessError is swallowed,
\* the key staying where it is
DeletePostprocessApiKey(removed) ==
    /\ MainIdle
    /\ keychain' = (keychain /\ ~removed)
    /\ UNCHANGED postprocess
    /\ SetterFrame

\* the payload write_transcript_json(audio_path, text, original_text=...,
\* polished_text=...) writes; audio_path.stem is the path
TranscriptJson(audio_path, text, original_text, polished_text) ==
    [id |-> audio_path, text |-> text, original_text |-> original_text,
     polished_text |-> polished_text]

\* json_path.write_text(...): the file of this id is replaced
Written(ts, payload) == {t \in ts : t.id # payload.id} \cup {payload}

(* ---------------------------------------------------------------------- *)
(* The model files and the two module locks                               *)
(* ---------------------------------------------------------------------- *)

\* ensure_model and is_model_downloaded:
\* `target_dir.exists() and any(target_dir.iterdir())`
ModelPresent(model_id) == model_id \in downloaded \cup partial

\* snapshot_download raised: `left` is whether it had written files into the
\* directory of the model by then
Interrupted(model_id, left) ==
    IF left /\ model_id \notin downloaded THEN partial \cup {model_id} ELSE partial

\* Every section under _MODEL_DOWNLOAD_LOCK or _MODEL_LOAD_LOCK is a step of
\* its thread, and so is every statement between two sections that reads or
\* writes what other threads do; a lock is held by the thread whose pc is
\* inside it.  pc of a loader thread: "download"/"warm"/"ensure" before
\* ensure_model, "downloading"/"warm_downloading" in snapshot_download,
\* "check" at the unlocked test of _ensure_loaded_model, "lockwait" before its
\* `with`, "loading" in holder.get_model.

\* a thread is inside `with _MODEL_DOWNLOAD_LOCK` (model_manager.py)
DownloadLockHeld ==
    \/ \E t \in tasks : t.pc \in {"downloading", "warm_downloading"}
    \/ \E r \in runs : r.pc = "downloading"

\* a thread is inside `with _MODEL_LOAD_LOCK` (transcription.py)
LoadLockHeld ==
    \/ \E t \in tasks : t.pc = "loading"
    \/ \E r \in runs : r.pc = "loading"
    \/ \E h \in handlers : h.pc = "clearing"

\* Variants for comparison: the sections entered without taking the lock
DownloadLockIgnored == TRUE
LoadLockIgnored == TRUE

\* `with _MODEL_DOWNLOAD_LOCK:` and `with _MODEL_LOAD_LOCK:` can be entered
DownloadLockFree == ~DownloadLockHeld
LoadLockFree == ~LoadLockHeld

\* _ensure_loaded_model: `current_model is not None and current_path == model_path_str`
HolderHas(model_id) == holder_model = model_id

(* ---------------------------------------------------------------------- *)
(* DictateApp._transcribe_and_paste: one thread per dispatched recording  *)
(* ---------------------------------------------------------------------- *)

\* A variant for comparison: _decrement_transcribing left out of the `finally`
DecrementedNever == transcribing_count

\* _decrement_transcribing
Decremented == IF transcribing_count > 0 THEN transcribing_count - 1 ELSE transcribing_count

\* thread r at pc
RunTo(r, pc) == (runs \ {r}) \cup {[r EXCEPT !.pc = pc]}

\* thread r at pc, working with model_id
RunAt(r, pc, model_id) == (runs \ {r}) \cup {[r EXCEPT !.pc = pc, !.model = model_id]}

\* `self._increment_transcribing()`, under _transcribing_lock
RunBegin(r) ==
    /\ r \in runs /\ r.pc = "begin"
    /\ transcribing_count' = transcribing_count + 1
    /\ runs' = RunTo(r, "mark")
    /\ UNCHANGED <<now, side_vars, ctrl_vars, load_vars, idle_vars, history>>

\* `self._mark_model_used(self.current_model_id)`: the argument is read,
\* before the call waits for _model_idle_lock
RunMark(r) ==
    /\ r \in runs /\ r.pc = "mark"
    /\ runs' = RunAt(r, "use", CurrentModelId)
    /\ UNCHANGED <<now, side_vars, ctrl_vars, transcribing_count, load_vars, idle_vars, history>>

\* _mark_model_used(model_id): the first lock section
RunUse(r) ==
    /\ r \in runs /\ r.pc = "use"
    /\ MarkModelUsed(r.model)
    /\ runs' = RunTo(r, "schedule")
    /\ UNCHANGED <<now, side_vars, ctrl_vars, transcribing_count, load_vars,
                   model_idle_minutes, model_idle_seconds, idle_changes, handlers, history>>

\* _mark_model_used: `self._schedule_model_unload()` up to its test
RunSchedule(r) ==
    /\ r \in runs /\ r.pc = "schedule"
    /\ ScheduleModelUnload
    /\ runs' = RunTo(r, AfterSchedule("transcribe"))
    /\ UNCHANGED <<now, side_vars, ctrl_vars, transcribing_count, load_vars,
                   model_idle_minutes, model_idle_seconds, idle_changes, last_model_use,
                   last_model_id, handlers, history>>

\* the rest of that _schedule_model_unload
RunArm(r) ==
    /\ r \in runs /\ r.pc = "arm"
    /\ ArmModelUnload
    /\ runs' = RunTo(r, "transcribe")
    /\ UNCHANGED <<now, side_vars, ctrl_vars, transcribing_count, load_vars,
                   model_idle_minutes, model_idle_seconds, idle_changes, last_model_use,
                   last_model_id, handlers, history>>

\* `transcribe_audio(audio_path, self.current_model_id, ...)` is called: the
\* model id is read here, before ensure_model waits for its lock
RunTranscribe(r) ==
    /\ r \in runs /\ r.pc = "transcribe"
    /\ runs' = RunAt(r, "ensure", CurrentModelId)
    /\ UNCHANGED <<now, side_vars, ctrl_vars, transcribing_count, load_vars, idle_vars, history>>

\* ensure_model: the lock is taken and the model directory tested; a model
\* that is present is returned at once
FineRunEnsure(r) ==
    /\ r \in runs /\ r.pc = "ensure"
    /\ DownloadLockFree
    /\ runs' = RunTo(r, IF ModelPresent(r.model) THEN "check" ELSE "downloading")
    /\ UNCHANGED <<now, side_vars, ctrl_vars, transcribing_count, load_vars, idle_vars, history>>

\* A variant for comparison: the thread ends on an exception without the `finally`
RunRaisedWithoutFinally(r) == runs' = runs \ {r}

\* an exception in the `try` of _transcribe_and_paste: `except Exception` logs
\* it and the thread goes on to the `finally`
RunRaised(r) == runs' = RunTo(r, "finally")

\* snapshot_download returns or raises, and the lock is released
FineRunFetch(r, ok) ==
    /\ r \in runs /\ r.pc = "downloading"
    /\ IF ok
       THEN /\ downloaded' = downloaded \cup {r.model}
            /\ partial' = partial \ {r.model}
            /\ runs' = RunTo(r, "check")
       ELSE /\ UNCHANGED downloaded
            /\ \E left \in BOOLEAN : partial' = Interrupted(r.model, left)
            /\ RunRaised(r)
    /\ UNCHANGED <<now, side_vars, ctrl_vars, transcribing_count, model_loading, warmup_id,
                   total_memory_kib, model_override, holder_model, tasks, overrides,
                   idle_vars, history>>

\* _ensure_loaded_model: the test before the lock
FineRunCheck(r) ==
    /\ r \in runs /\ r.pc = "check"
    /\ runs' = RunTo(r, IF HolderHas(r.model) THEN "infer" ELSE "lockwait")
    /\ UNCHANGED <<now, side_vars, ctrl_vars, transcribing_count, load_vars, idle_vars, history>>

\* _ensure_loaded_model: the lock is taken and the test made again
FineRunAcquire(r) ==
    /\ r \in runs /\ r.pc = "lockwait"
    /\ LoadLockFree
    /\ runs' = RunTo(r, IF HolderHas(r.model) THEN "infer" ELSE "loading")
    /\ UNCHANGED <<now, side_vars, ctrl_vars, transcribing_count, load_vars, idle_vars, history>>

\* holder.get_model can return: the directory of the model is there (without
\* it mlx_whisper takes the path for a repository id and raises)
Loadable(model_id) == ModelPresent(model_id)

\* holder.get_model returns, the handle holding the model, or raises; the lock
\* is released
FineRunLoad(r, ok) ==
    /\ r \in runs /\ r.pc = "loading"
    /\ ok => Loadable(r.model)
    /\ IF ok
       THEN /\ holder_model' = r.model
            /\ runs' = RunTo(r, "infer")
       ELSE /\ UNCHANGED holder_model
            /\ RunRaised(r)
    /\ UNCHANGED <<now, side_vars, ctrl_vars, transcribing_count, model_loading, warmup_id,
                   total_memory_kib, model_override, downloaded, partial, tasks, overrides,
                   idle_vars, history>>

\* _extract_text(result): the text of a dict with a "text" entry or of a str,
\* stripped; anything else raises
ExtractText(result) ==
    IF result.kind = "dict" /\ result.has_text THEN Returned(Strip(result.text))
    ELSE IF result.kind = "str" THEN Returned(Strip(result.text))
    ELSE Raised

\* how the inference of transcribe_audio ends: mlx_whisper.transcribe raises
\* or returns something _extract_text raises on, or the text is returned
TranscribeOutcome(result) ==
    IF result.kind = "raised" THEN Raised ELSE ExtractText(result)

\* the rest of transcribe_audio: the audio file is read and the inference
\* returns `result` or raises; without the file it can only raise
FineRunInfer(r, result) ==
    /\ r \in runs /\ r.pc = "infer"
    /\ ~FileExists(files, r.path) => result.kind = "raised"
    /\ IF TranscribeOutcome(result).raised
       THEN RunRaised(r)
       ELSE runs' = (runs \ {r}) \cup
                {[r EXCEPT !.pc = "deliver", !.text = TranscribeOutcome(result).text]}
    /\ UNCHANGED <<now, side_vars, ctrl_vars, transcribing_count, load_vars, idle_vars, history>>

\* what a step of a transcription thread after transcribe_audio leaves alone,
\* beside runs and out_vars
DeliverFrame ==
    UNCHANGED <<now, transcribing_count, post_vars, hotkey_vars, split_vars,
                rewrite_vars, ctrl_vars, load_vars, idle_vars, history>>

\* `original_text = text; polished_text = ""` and
\* `if text and self._postprocess_enabled:`, the first read of the setting
RunDeliver(r) ==
    /\ r \in runs /\ r.pc = "deliver"
    /\ runs' = (runs \ {r}) \cup
             {[r EXCEPT !.pc = IF r.text # <<>> /\ postprocess.enabled
                               THEN ConfigFields[1] ELSE "write",
                        !.original_text = r.text,
                        !.polished_text = <<>>]}
    /\ UNCHANGED out_vars
    /\ DeliverFrame

\* the pc of a thread after its read of the attribute `field`
AfterField(field) ==
    IF field = ConfigFields[1] THEN ConfigFields[2]
    ELSE IF field = ConfigFields[2] THEN ConfigFields[3]
    ELSE "postprocess"

\* _build_postprocess_config(): one attribute of the app is read, under no
\* lock, in a step of its own; the pc of the thread names the attribute
RunBuildConfig(r) ==
    /\ r \in runs /\ r.pc \in {ConfigFields[k] : k \in 1..3}
    /\ runs' = (runs \ {r}) \cup
             {[r EXCEPT !.pc = AfterField(r.pc),
                        !.config[r.pc] = BuildPostprocessConfig[r.pc]]}
    /\ UNCHANGED out_vars
    /\ DeliverFrame

\* thread r after postprocess_text ended with `result`: `text = ...;
\* polished_text = text`, or the `except Exception` that logs
AfterPostprocess(r, result) ==
    [r EXCEPT !.pc = "write",
              !.text = Rewritten(r.text, result),
              !.polished_text = IF result.raised THEN <<>> ELSE result.text,
              !.failed = result.raised]

\* postprocess_text(text, config) up to _post_json: it returns the text of a
\* configuration that is not enabled, raises without a key, a model or a
\* base URL, or sends the request; the keychain is read here
RunPostprocess(r) ==
    /\ r \in runs /\ r.pc = "postprocess"
    /\ runs' = (runs \ {r}) \cup
             {IF RequestSent(r.config, keychain)
              THEN [r EXCEPT !.pc = "request"]
              ELSE AfterPostprocess(r, PostprocessText(r.text, r.config, keychain,
                                                      Unanswered))}
    /\ UNCHANGED out_vars
    /\ DeliverFrame

\* the request comes back with `reply`, and postprocess_text ends: the key is
\* the one that was read before the request
RunRequest(r, reply) ==
    /\ r \in runs /\ r.pc = "request"
    /\ runs' = (runs \ {r}) \cup
             {AfterPostprocess(r, PostprocessText(r.text, r.config, TRUE, reply))}
    /\ UNCHANGED out_vars
    /\ DeliverFrame

\* write_transcript_json(audio_path, text, original_text=..., polished_text=...):
\* the record is written and the thread goes on to `if text:`, or write_text
\* raises and the thread goes to the `except Exception` of the outer try
RunWrite(r, ok) ==
    /\ r \in runs /\ r.pc = "write"
    /\ IF ok
       THEN /\ transcripts' = Written(transcripts,
                                      TranscriptJson(r.path, r.text, r.original_text,
                                                     r.polished_text))
            /\ runs' = RunTo(r, "paste")
       ELSE /\ transcripts' = transcripts
            /\ RunRaised(r)
    /\ UNCHANGED <<clipboard, pasted>>
    /\ DeliverFrame

\* `if text: paste_text(text)` up to `pasteboard.clearContents()` of copy_text
RunPaste(r) ==
    /\ r \in runs /\ r.pc = "paste"
    /\ IF r.text # <<>>
       THEN clipboard' = <<>> /\ runs' = RunTo(r, "copy")
       ELSE clipboard' = clipboard /\ runs' = RunTo(r, "finally")
    /\ UNCHANGED <<transcripts, pasted>>
    /\ DeliverFrame

\* copy_text: `pasteboard.setString_forType_(text, NSPasteboardTypeString)`
RunCopy(r) ==
    /\ r \in runs /\ r.pc = "copy"
    /\ clipboard' = r.text
    /\ runs' = RunTo(r, "sleep")
    /\ UNCHANGED <<transcripts, pasted>>
    /\ DeliverFrame

\* paste_text: `time.sleep(0.05)` is over and paste_via_command_v() posts
\* Cmd-V, which pastes what is on the pasteboard by then
RunCommandV(r) ==
    /\ r \in runs /\ r.pc = "sleep"
    /\ pasted' = Append(pasted, clipboard)
    /\ runs' = RunTo(r, "finally")
    /\ UNCHANGED <<transcripts, clipboard>>
    /\ DeliverFrame

\* `finally: self._decrement_transcribing()`, and the thread ends
RunEnd(r) ==
    /\ r \in runs /\ r.pc = "finally"
    /\ transcribing_count' = Decremented
    /\ runs' = runs \ {r}
    /\ UNCHANGED <<now, side_vars, ctrl_vars, load_vars, idle_vars, history>>

(* ---------------------------------------------------------------------- *)
(* DictateApp: model download and warmup                                  *)
(* ---------------------------------------------------------------------- *)

\* the thread _start_model_warmup / _start_model_download starts, if any:
\* _warmup_model(model_id, warmup_id) begins at pc "warm",
\* _download_model(model_id, warmup_id, warmup) at pc "download"
NewTask(id, model_id, warmup, pc) ==
    [id |-> id, model |-> model_id, warmup |-> warmup, pc |-> pc]

\* set_model_override(model_id) up to the return of _save_config_state:
\* _model_override is written and the configuration is saved; a call with the
\* current override returns at once, and when save_config raises (`saved` is
\* false) the call ends there, before _start_model_download
SetModelOverride(model_id, saved) ==
    /\ MainIdle
    /\ overrides < MaxOverrides
    /\ model_id # model_override
    /\ overrides' = overrides + 1
    /\ model_override' = model_id
    /\ main' = IF saved
               THEN [NoCall EXCEPT !.pc = "warmup_id", !.model = model_id]
               ELSE NoCall
    /\ UNCHANGED <<now, side_vars, recording, audio, pending_stop_timer, pending_stop_path,
                   stop_timers, files, rec_seq, run_vars, model_loading, warmup_id,
                   total_memory_kib, downloaded, partial, holder_model, tasks,
                   idle_vars, history>>

\* what a step of the main thread in _start_model_download leaves alone,
\* beside the variables of load_vars it writes
DownloadFrame ==
    UNCHANGED <<now, side_vars, recording, audio, pending_stop_timer, pending_stop_path,
                stop_timers, files, rec_seq, run_vars, total_memory_kib, model_override,
                downloaded, partial, holder_model, overrides, idle_vars, history>>

\* _start_model_download(model_id) as set_model_override calls it, with
\* warmup = not self._defer_warmup.  It writes _warmup_id and _model_loading
\* under no lock and then looks at the files of the model: four steps.

\* `self._warmup_id += 1; warmup_id = self._warmup_id`
NextWarmupId ==
    /\ main.pc = "warmup_id"
    /\ warmup_id' = warmup_id + 1
    /\ main' = [main EXCEPT !.pc = "loading"]
    /\ UNCHANGED <<model_loading, tasks>>
    /\ DownloadFrame

\* `self._set_model_loading(True)`
SetModelLoading ==
    /\ main.pc = "loading"
    /\ model_loading' = TRUE
    /\ main' = [main EXCEPT !.pc = "downloaded"]
    /\ UNCHANGED <<warmup_id, tasks>>
    /\ DownloadFrame

\* `if is_model_downloaded(model_id):` and the thread either branch starts: a
\* model that is there is warmed by _warmup_model when warmup is set and
\* otherwise needs no thread, one that is not is fetched by _download_model
StartModelDownload(model_id, warmup) ==
    /\ main.pc = "downloaded"
    /\ IF ModelPresent(model_id)
       THEN IF warmup
            THEN /\ tasks' = tasks \cup {NewTask(warmup_id, model_id, warmup, "warm")}
                 /\ main' = NoCall
            ELSE /\ tasks' = tasks
                 /\ main' = [main EXCEPT !.pc = "loaded"]
       ELSE /\ tasks' = tasks \cup {NewTask(warmup_id, model_id, warmup, "download")}
            /\ main' = NoCall
    /\ UNCHANGED <<model_loading, warmup_id>>
    /\ DownloadFrame

\* `self._set_model_loading(False); return` for a model that is there and is
\* not to be warmed
ClearModelLoading ==
    /\ main.pc = "loaded"
    /\ model_loading' = FALSE
    /\ main' = NoCall
    /\ UNCHANGED <<warmup_id, tasks>>
    /\ DownloadFrame

\* how far shutil.rmtree gets in the directory of a model: it removes it, or
\* it raises having removed some of the files, or none
RemoveOutcomes == {"removed", "partly", "kept"}

\* delete_downloaded_model(model_id), the menu action of the settings window:
\* delete_model removes the directory of the model, if there is one, as far as
\* shutil.rmtree gets: a directory it leaves with some of its files is one
\* is_model_downloaded still finds
DeleteDownloadedModel(model_id, removal) ==
    /\ MainIdle
    /\ ~ModelPresent(model_id) => removal = "removed"
    /\ downloaded' = IF removal = "kept" THEN downloaded ELSE downloaded \ {model_id}
    /\ partial' = IF removal = "removed" THEN partial \ {model_id}
                  ELSE IF removal = "partly" THEN partial \cup {model_id}
                  ELSE partial
    /\ UNCHANGED <<now, side_vars, ctrl_vars, run_vars, model_loading, warmup_id,
                   total_memory_kib, model_override, holder_model, tasks, overrides,
                   idle_vars, history>>

\* the pc of a task after ensure_model returns
AfterEnsure(t) ==
    IF t.pc \in {"download", "downloading"}
    THEN (IF t.warmup THEN "warm" ELSE "finish")
    ELSE "check"

TaskAt(t, pc) == (tasks \ {t}) \cup {[t EXCEPT !.pc = pc]}

\* _download_model / warmup_model enter ensure_model: the lock is taken and the
\* model directory tested; a model that is present is returned at once
FineTaskEnsure(t) ==
    /\ t \in tasks /\ t.pc \in {"download", "warm"}
    /\ DownloadLockFree
    /\ tasks' = IF ModelPresent(t.model)
                THEN TaskAt(t, AfterEnsure(t))
                ELSE TaskAt(t, IF t.pc = "download" THEN "downloading" ELSE "warm_downloading")
    /\ UNCHANGED <<now, side_vars, ctrl_vars, run_vars, model_loading, warmup_id, total_memory_kib,
                   model_override, downloaded, partial, holder_model, overrides, idle_vars, history>>

\* snapshot_download returns or raises, and the lock is released.  A failure
\* is logged by the `except` of _download_model or of _warmup_model, and the
\* thread goes on to its test of warmup_id.
FineTaskFetch(t, ok) ==
    /\ t \in tasks /\ t.pc \in {"downloading", "warm_downloading"}
    /\ IF ok
       THEN /\ downloaded' = downloaded \cup {t.model}
            /\ partial' = partial \ {t.model}
            /\ tasks' = TaskAt(t, AfterEnsure(t))
       ELSE /\ UNCHANGED downloaded
            /\ \E left \in BOOLEAN : partial' = Interrupted(t.model, left)
            /\ tasks' = TaskAt(t, "finish")
    /\ UNCHANGED <<now, side_vars, ctrl_vars, run_vars, model_loading, warmup_id,
                   total_memory_kib, model_override, holder_model, overrides, idle_vars,
                   history>>

\* _ensure_loaded_model: the test before the lock; with the model in the
\* handle warmup_model returns and the thread goes on to _mark_model_used
FineTaskCheck(t) ==
    /\ t \in tasks /\ t.pc = "check"
    /\ tasks' = TaskAt(t, IF HolderHas(t.model) THEN "mark" ELSE "lockwait")
    /\ UNCHANGED <<now, side_vars, ctrl_vars, run_vars, model_loading, warmup_id, total_memory_kib,
                   model_override, downloaded, partial, holder_model, overrides, idle_vars,
                   history>>

\* _ensure_loaded_model with the test under the lock left out: the load is
\* made whatever the handle holds
FineTaskAcquireUnchecked(t) ==
    /\ t \in tasks /\ t.pc = "lockwait"
    /\ LoadLockFree
    /\ tasks' = TaskAt(t, "loading")
    /\ UNCHANGED <<now, side_vars, ctrl_vars, run_vars, model_loading, warmup_id, total_memory_kib,
                   model_override, downloaded, partial, holder_model, overrides, idle_vars,
                   history>>

\* _ensure_loaded_model: the lock is taken and the test made again
FineTaskAcquire(t) ==
    /\ t \in tasks /\ t.pc = "lockwait"
    /\ LoadLockFree
    /\ tasks' = TaskAt(t, IF HolderHas(t.model) THEN "mark" ELSE "loading")
    /\ UNCHANGED <<now, side_vars, ctrl_vars, run_vars, model_loading, warmup_id, total_memory_kib,
                   model_override, downloaded, partial, holder_model, overrides, idle_vars,
                   history>>

\* holder.get_model returns, the handle holding the model, or raises; the lock
\* is released.  An exception is logged and the thread goes on to its test of
\* warmup_id.
FineTaskLoad(t, ok) ==
    /\ t \in tasks /\ t.pc = "loading"
    /\ ok => Loadable(t.model)
    /\ IF ok
       THEN /\ holder_model' = t.model
            /\ tasks' = TaskAt(t, "mark")
       ELSE /\ tasks' = TaskAt(t, "finish")
            /\ UNCHANGED holder_model
    /\ UNCHANGED <<now, side_vars, ctrl_vars, run_vars, model_loading, warmup_id, total_memory_kib,
                   model_override, downloaded, partial, overrides, idle_vars, history>>

\* warmup_model has returned: `self._mark_model_used(model_id)`, the first
\* lock section
TaskMark(t) ==
    /\ t \in tasks /\ t.pc = "mark"
    /\ MarkModelUsed(t.model)
    /\ tasks' = TaskAt(t, "schedule")
    /\ UNCHANGED <<now, side_vars, ctrl_vars, run_vars, model_loading, warmup_id, total_memory_kib,
                   model_override, downloaded, partial, holder_model, overrides,
                   model_idle_minutes, model_idle_seconds, idle_changes, handlers, history>>

\* _mark_model_used: `self._schedule_model_unload()` up to its test
TaskSchedule(t) ==
    /\ t \in tasks /\ t.pc = "schedule"
    /\ ScheduleModelUnload
    /\ tasks' = TaskAt(t, AfterSchedule("finish"))
    /\ UNCHANGED <<now, side_vars, ctrl_vars, run_vars, model_loading, warmup_id, total_memory_kib,
                   model_override, downloaded, partial, holder_model, overrides,
                   model_idle_minutes, model_idle_seconds, idle_changes, last_model_use,
                   last_model_id, handlers, history>>

\* the rest of that _schedule_model_unload
TaskArm(t) ==
    /\ t \in tasks /\ t.pc = "arm"
    /\ ArmModelUnload
    /\ tasks' = TaskAt(t, "finish")
    /\ UNCHANGED <<now, side_vars, ctrl_vars, run_vars, model_loading, warmup_id, total_memory_kib,
                   model_override, downloaded, partial, holder_model, overrides,
                   model_idle_minutes, model_idle_seconds, idle_changes, last_model_use,
                   last_model_id, handlers, history>>

\* The end of _warmup_model and of _download_model is
\* `if warmup_id == self._warmup_id: self._set_model_loading(False)`: two
\* statements of a thread that holds no lock.

\* `if warmup_id == self._warmup_id:` a thread that is not the newest ends
TaskFinishTest(t) ==
    /\ t \in tasks /\ t.pc = "finish"
    /\ tasks' = IF t.id = warmup_id THEN TaskAt(t, "clear") ELSE tasks \ {t}
    /\ UNCHANGED <<now, side_vars, ctrl_vars, run_vars, model_loading, warmup_id,
                   total_memory_kib, model_override, downloaded, partial, holder_model,
                   overrides, idle_vars, history>>

\* `self._set_model_loading(False)`, and the thread ends
TaskFinishClear(t) ==
    /\ t \in tasks /\ t.pc = "clear"
    /\ tasks' = tasks \ {t}
    /\ model_loading' = FALSE
    /\ UNCHANGED <<now, side_vars, ctrl_vars, run_vars, warmup_id, total_memory_kib,
                   model_override, downloaded, partial, holder_model, overrides, idle_vars,
                   history>>

(* ---------------------------------------------------------------------- *)
(* unload_model under _MODEL_LOAD_LOCK                                    *)
(* ---------------------------------------------------------------------- *)

\* unload_model: `with _MODEL_LOAD_LOCK:` is entered
FineUnloadAcquire(h) ==
    /\ h \in handlers /\ h.pc = "clear"
    /\ LoadLockFree
    /\ handlers' = Moved(h, "clearing")
    /\ UNCHANGED <<now, side_vars, ctrl_vars, run_vars, load_vars, model_idle_minutes,
                   model_idle_seconds, model_idle_timer, idle_timers, idle_seq,
                   idle_changes, last_model_use, last_model_id, history>>

\* unload_model: `holder.model = None; holder.model_path = None`, and the lock
\* is released
FineUnloadClear(h) ==
    /\ h \in handlers /\ h.pc = "clearing"
    /\ holder_model' = NoModel
    /\ handlers' = handlers \ {h}
    /\ history' = [history EXCEPT !.unloaded = @ + 1]
    /\ UNCHANGED <<now, side_vars, ctrl_vars, run_vars, model_loading, warmup_id, total_memory_kib,
                   model_override, downloaded, partial, tasks, overrides, model_idle_minutes,
                   model_idle_seconds, model_idle_timer, idle_timers, idle_seq,
                   idle_changes, last_model_use, last_model_id>>

(* ---------------------------------------------------------------------- *)
(* HotkeyManager (hotkeys.py)                                             *)
(* ---------------------------------------------------------------------- *)

\* CG_MODIFIER_MASK: the flag bits _event_callback looks at
ModifierMask == {"ctrl", "alt", "shift", "cmd", "fn"}

\* Hotkey(modifiers, keycode); NoKeycode is keycode=None
Hotkey(modifiers, keycode) == [modifiers |-> modifiers, keycode |-> keycode]

\* Settings.hotkey_modifiers, hotkey_keycode: Fn+Ctrl, no key
DefaultHotkey == Hotkey({"ctrl", "fn"}, NoKeycode)

\* HotkeyManager.__init__ followed by register(hotkey), as DictateApp.__init__ does
HotkeyManagerInit(hotkey) ==
    [registered |-> hotkey, hotkey_down |-> FALSE, fn_down |-> FALSE,
     fn_last_press |-> 0]

\* what _event_callback does on an event: it leaves through `return event`
\* with the object as h and _on_toggle not called, or it calls _on_toggle with
\* the object as at_call and, when the call returns, leaves with it as h
Kept(h) == [hotkeys |-> h, fired |-> FALSE, at_call |-> h]
Fired(at_call, h) == [hotkeys |-> h, fired |-> TRUE, at_call |-> at_call]

\* A variant for comparison: the key+modifier branch without `not self._hotkey_down`
KeyDownUntracked(h, ev, flags) ==
    IF ev.keycode = h.registered.keycode /\ flags = h.registered.modifiers
    THEN Fired([h EXCEPT !.hotkey_down = TRUE], [h EXCEPT !.hotkey_down = TRUE])
    ELSE Kept(h)

\* _event_callback, key+modifier binding, kCGEventKeyDown:
\* `self._hotkey_down = True` and then `self._on_toggle()`
KeyDown(h, ev, flags) ==
    IF /\ ev.keycode = h.registered.keycode
       /\ flags = h.registered.modifiers
       /\ ~h.hotkey_down
    THEN Fired([h EXCEPT !.hotkey_down = TRUE], [h EXCEPT !.hotkey_down = TRUE])
    ELSE Kept(h)

\* _event_callback, key+modifier binding, kCGEventKeyUp
KeyUp(h, ev) ==
    IF ev.keycode = h.registered.keycode
    THEN Kept([h EXCEPT !.hotkey_down = FALSE])
    ELSE Kept(h)

\* A variant for comparison: a firing press keeping its reading in
\* _fn_last_press instead of the 0.0 that consumes the window
FnChangedWindowKept(h, flags, t) ==
    LET fn_now == "fn" \in flags
    IN  IF fn_now /\ ~h.fn_down
        THEN IF ElapsedWithin(t, h.fn_last_press, FnDoubleTapSeconds)
             THEN Fired(h, [h EXCEPT !.fn_last_press = t, !.fn_down = TRUE])
             ELSE Kept([h EXCEPT !.fn_last_press = t, !.fn_down = TRUE])
        ELSE IF ~fn_now /\ h.fn_down
             THEN Kept([h EXCEPT !.fn_down = FALSE])
             ELSE Kept(h)

\* A variant for comparison: the release of the modifier arming the window too
FnChangedArmedOnRelease(h, flags, t) ==
    LET fn_now == "fn" \in flags
    IN  IF fn_now /\ ~h.fn_down
        THEN IF ElapsedWithin(t, h.fn_last_press, FnDoubleTapSeconds)
             THEN Fired(h, [h EXCEPT !.fn_last_press = 0, !.fn_down = TRUE])
             ELSE Kept([h EXCEPT !.fn_last_press = t, !.fn_down = TRUE])
        ELSE IF ~fn_now /\ h.fn_down
             THEN Kept([h EXCEPT !.fn_last_press = t, !.fn_down = FALSE])
             ELSE Kept(h)

\* _event_callback, binding = the function modifier alone, kCGEventFlagsChanged;
\* t is the reading of time.monotonic() in ms, _fn_last_press the reading it
\* keeps (0 for the 0.0 it starts from and is reset to); the test
\* `now - self._fn_last_press <= FN_DOUBLE_TAP_SECONDS` is made on the floats.
\* A press inside the window calls _on_toggle first and writes
\* _fn_last_press and _fn_down when the call has returned.
FnChanged(h, flags, t) ==
    LET fn_now == "fn" \in flags
    IN  IF fn_now /\ ~h.fn_down
        THEN IF ElapsedWithin(t, h.fn_last_press, FnDoubleTapSeconds)
             THEN Fired(h, [h EXCEPT !.fn_last_press = 0, !.fn_down = TRUE])
             ELSE Kept([h EXCEPT !.fn_last_press = t, !.fn_down = TRUE])
        ELSE IF ~fn_now /\ h.fn_down
             THEN Kept([h EXCEPT !.fn_down = FALSE])
             ELSE Kept(h)

\* A variant for comparison: the bound modifiers among others held
ModifiersChangedAmongOthers(h, flags) ==
    LET hotkey_now == h.registered.modifiers \subseteq flags
    IN  IF hotkey_now /\ ~h.hotkey_down
        THEN Fired([h EXCEPT !.hotkey_down = TRUE], [h EXCEPT !.hotkey_down = TRUE])
        ELSE IF ~hotkey_now /\ h.hotkey_down
             THEN Kept([h EXCEPT !.hotkey_down = FALSE])
             ELSE Kept(h)

\* _event_callback, any other binding without a key, kCGEventFlagsChanged:
\* `self._hotkey_down = True` and then `self._on_toggle()`
ModifiersChanged(h, flags) ==
    LET hotkey_now == flags = h.registered.modifiers
    IN  IF hotkey_now /\ ~h.hotkey_down
        THEN Fired([h EXCEPT !.hotkey_down = TRUE], [h EXCEPT !.hotkey_down = TRUE])
        ELSE IF ~hotkey_now /\ h.hotkey_down
             THEN Kept([h EXCEPT !.hotkey_down = FALSE])
             ELSE Kept(h)

\* _event_callback(event) on the object h at time t: the object afterwards and
\* whether _on_toggle was called.  ev.type is "flags", "down" or "up".
Handled(h, ev, t) ==
    LET flags == ev.flags \cap ModifierMask
    IN  IF h.registered.keycode = NoKeycode
        THEN IF ev.type # "flags" THEN Kept(h)
             ELSE IF h.registered.modifiers = {"fn"}
                  THEN FnChanged(h, flags, t)
                  ELSE ModifiersChanged(h, flags)
        ELSE IF ev.type = "up" THEN KeyUp(h, ev)
             ELSE IF ev.type = "down" THEN KeyDown(h, ev, flags)
             ELSE Kept(h)

NoEvent == [type |-> "none", keycode |-> NoKeycode, flags |-> {}]
NoPress == -1

\* nothing has happened on the keyboard: the modifiers held (mask), whether
\* the last event fired and whether the bound key is held since a firing, and
\* of the presses of the function modifier the reading of the last one
\* (press_at), whether it fired and whether that call of the toggle raised,
\* and the reading of the last one that did not fire (armed_at)
KeyHistoryInit ==
    [mask |-> {}, fired |-> FALSE, held_since_fire |-> FALSE, press_at |-> NoPress,
     press_fired |-> FALSE, press_raised |-> FALSE, armed_at |-> NoPress]

\* is ev a press of the function modifier, `fn_now and not self._fn_down` in
\* the branch of the binding to the function modifier alone: a flags event
\* that has the bit while the monitor tracks the modifier as up
FnPress(ev) ==
    /\ hotkeys.registered = Hotkey({"fn"}, NoKeycode)
    /\ ev.type = "flags"
    /\ "fn" \in ev.flags
    /\ ~hotkeys.fn_down

\* the keyboard's history after ev at time t, given whether the callback
\* fired and whether the toggle it called raised
KeyNoted(ev, fired, raised, t) ==
    [mask |-> IF ev.type = "flags" THEN ev.flags \cap ModifierMask
              ELSE key_history.mask,
     fired |-> fired,
     held_since_fire |->
         IF fired THEN TRUE
         ELSE IF ev.type = "up" /\ ev.keycode = hotkeys.registered.keycode
              THEN FALSE
              ELSE key_history.held_since_fire,
     press_at |-> IF FnPress(ev) THEN t ELSE key_history.press_at,
     press_fired |-> IF FnPress(ev) THEN fired ELSE key_history.press_fired,
     press_raised |-> IF FnPress(ev) THEN raised ELSE key_history.press_raised,
     armed_at |-> IF FnPress(ev) /\ ~fired THEN t ELSE key_history.armed_at]

\* the event tap delivers ev: _event_callback, and toggle_recording if it
\* fires, as far as the first step of toggle_recording goes.  While
\* toggle_recording runs the monitor is as it was at the call of _on_toggle;
\* what the callback writes after the call it writes when toggle_recording
\* has returned, in this step when the call is over within it.  A
\* toggle_recording that raises ends the callback where it called _on_toggle:
\* what the callback writes after the call is not written.
EventCallback(ev, met, limit) ==
    LET handled == Handled(hotkeys, ev, Monotonic)
        raised == handled.fired /\ ToggleRaises(met)
    IN  /\ MainIdle
        /\ tap_count + hotkey_changes < MaxTapEvents
        /\ tap_event' = ev
        /\ tap_count' = tap_count + 1
        /\ toggles_fired' = IF handled.fired THEN toggles_fired + 1 ELSE toggles_fired
        /\ key_history' = KeyNoted(ev, handled.fired, raised, Monotonic)
        /\ IF handled.fired
           THEN ToggleRecording(met, limit)
           ELSE UNCHANGED <<now, ctrl_vars, run_vars, load_vars, idle_vars, post_vars,
                            out_vars, split_vars, rewrite_vars, history>>
        /\ IF handled.fired /\ main' # NoCall
           THEN /\ hotkeys' = handled.at_call
                /\ tap_call' = InToggle(handled.hotkeys)
           ELSE /\ hotkeys' = IF raised THEN handled.at_call ELSE handled.hotkeys
                /\ tap_call' = NoTapCall
        /\ UNCHANGED <<monotonic_base, hotkey_changes>>

\* set_hotkey(modifiers, keycode, label): HotkeyManager.register(hotkey)
SetHotkey(hotkey) ==
    /\ MainIdle
    /\ tap_count + hotkey_changes < MaxTapEvents
    /\ hotkey_changes < MaxHotkeyChanges
    /\ hotkeys' = [hotkeys EXCEPT !.registered = hotkey, !.hotkey_down = FALSE]
    /\ hotkey_changes' = hotkey_changes + 1
    /\ key_history' = [key_history EXCEPT !.held_since_fire = FALSE]
    /\ UNCHANGED <<now, ctrl_vars, run_vars, load_vars, idle_vars, post_vars,
                   out_vars, split_vars, rewrite_vars, history, tap_call, monotonic_base,
                   tap_event, tap_count, toggles_fired>>

(* ---------------------------------------------------------------------- *)
(* _split_on_silence (transcription.py)                                   *)
(* ---------------------------------------------------------------------- *)

\* Samples are the int16 values of the WAV file, durations and the rms
\* threshold are in thousandths (of a second, of full scale) and become the
\* Python floats nearest to them.  A number of the segmenter is nine limbs of
\* 12 bits, most significant first: x[1] is the whole part, x[2..9] are 96
\* fraction bits.  None is negative.  A Python float or np.float64 result is
\* rounded to 53 significant bits and an np.float32 result to 24, to the
\* nearest and ties to even.

Max(a, b) == IF a >= b THEN a ELSE b
Min(a, b) == IF a <= b THEN a ELSE b

\* int(a / b) for b > 0: the quotient rounded towards zero
TruncDiv(a, b) == IF a >= 0 THEN a \div b ELSE -((-a) \div b)

\* the element of a set of one.  The operators below take their operands
\* and their intermediate results through such a set, which computes each of
\* them once however often it is looked at.
Only(S) == CHOOSE v \in S : TRUE

\* the tuple <<f[1], ..., f[n]>>
RECURSIVE Listed(_, _)
Listed(f, n) == IF n = 0 THEN <<>> ELSE Append(Listed(f, n - 1), f[n])

\* the integer n
Whole(n) == <<n, 0, 0, 0, 0, 0, 0, 0, 0>>

\* the limbs 1..j of x after the carry (or borrow) into the j-th
RECURSIVE SettledTo(_, _, _)
SettledTo(x, j, carry) ==
    IF j = 1 THEN <<x[1] + carry>>
    ELSE Append(SettledTo(x, j - 1, (x[j] + carry) \div 4096), (x[j] + carry) % 4096)

\* the limbs after the first brought back into 0..4095 by carries and borrows
Settled(limbs) == Only({SettledTo(x, Len(x), 0) : x \in {limbs}})

\* the position of the leading bit of x, counted from the last fraction bit
\* (-1 for zero)
LeadBit(x) ==
    IF \A j \in 1..9 : x[j] = 0 THEN -1
    ELSE LET i == CHOOSE j \in 1..9 : x[j] # 0 /\ \A h \in 1..(j - 1) : x[h] = 0
         IN  12 * (9 - i) + BitLength(x[i]) - 1

\* x without its last c > 0 bits, to the nearest and ties to even; `inexact`
\* says that x was cut off above a remainder that is not zero
RoundedAt(x, c, inexact) ==
    LET k == Max(1, 9 - (c \div 12))
        o == c - 12 * (9 - k)
        kg == Max(1, 9 - ((c - 1) \div 12))
        og == (c - 1) - 12 * (9 - kg)
        guard == (x[kg] \div 2^og) % 2
        rest == \/ x[kg] % 2^og # 0
                \/ \E j \in (kg + 1)..9 : x[j] # 0
                \/ inexact
        lsb == (x[k] \div 2^o) % 2
        up == guard = 1 /\ (rest \/ lsb = 1)
    IN  Settled(Listed([j \in 1..9 |->
                           IF j < k THEN x[j]
                           ELSE IF j = k
                                THEN (x[j] \div 2^o) * 2^o + (IF up THEN 2^o ELSE 0)
                                ELSE 0], 9))

\* a number rounded to `bits` significant bits
Rounded(number, bits, inexact) ==
    Only({Only({IF c <= 0 THEN x ELSE RoundedAt(x, c, inexact) :
                c \in {LeadBit(x) - (bits - 1)}}) : x \in {number}})

\* a < b
Below(a, b) ==
    \E x \in {a}, y \in {b} :
        \E j \in 1..9 : x[j] < y[j] /\ \A i \in 1..(j - 1) : x[i] = y[i]

\* a + b and a - b (for b <= a) and a * n for an integer n, exactly
Plus(a, b) ==
    Only({Settled(Listed([j \in 1..9 |-> x[j] + y[j]], 9)) : x \in {a}, y \in {b}})
Minus(a, b) ==
    Only({Settled(Listed([j \in 1..9 |-> x[j] - y[j]], 9)) : x \in {a}, y \in {b}})
TimesWhole(a, n) ==
    Only({Settled(Listed([j \in 1..9 |-> x[j] * n], 9)) : x \in {a}})

\* the sum of x[i] * y[k + 1 - i] from i on: the k-th limb of the product
\* before the carries
RECURSIVE Convolved(_, _, _, _)
Convolved(x, y, k, i) ==
    IF i > Min(9, k) THEN 0
    ELSE x[i] * y[k + 1 - i] + Convolved(x, y, k, i + 1)

\* a * b with all of its 192 fraction bits
Product(a, b) ==
    Only({Settled(Listed([k \in 1..17 |-> Convolved(x, y, k, Max(1, k - 8))], 17)) :
          x \in {a}, y \in {b}})

\* a * b cut off after the 96 fraction bits, and whether anything is left
Times(a, b) ==
    Only({[value |-> SubSeq(product, 1, 9),
           inexact |-> \E j \in 10..17 : product[j] # 0] : product \in {Product(a, b)}})

\* the remainder of the limbs 1..j of x divided by the integer n
RECURSIVE Remainder(_, _, _)
Remainder(x, n, j) ==
    IF j = 0 THEN 0 ELSE (Remainder(x, n, j - 1) * 4096 + x[j]) % n

\* a / n cut off after the 96 fraction bits, and whether anything is left
Over(a, n) ==
    Only({[value |-> Listed([j \in 1..9 |->
                                (Remainder(x, n, j - 1) * 4096 + x[j]) \div n], 9),
           inexact |-> Remainder(x, n, 9) # 0] : x \in {a}})

\* the float operations on two floats, on a float and an int
FloatPlus(x, y, bits) == Rounded(Plus(x, y), bits, FALSE)
FloatDifference(x, y, bits) == Rounded(Minus(x, y), bits, FALSE)
FloatTimes(x, y, bits) ==
    Only({Rounded(product.value, bits, product.inexact) : product \in {Times(x, y)}})
FloatTimesWhole(x, n, bits) == Rounded(TimesWhole(x, n), bits, FALSE)
FloatOver(x, n, bits) ==
    Only({Rounded(quotient.value, bits, quotient.inexact) : quotient \in {Over(x, n)}})

\* the Python float written as t / 1000: the double nearest to it
Double(t) == FloatOver(Whole(t), MsPerSecond, 53)

\* int(x) for a float x that is not negative
Trunc(x) == x[1]

\* the integer x / 2^lo cut off, limb by limb from the j-th on
RECURSIVE Taken(_, _, _)
Taken(x, lo, j) ==
    IF j > 9 THEN 0
    ELSE LET s == 12 * (9 - j) - lo
         IN  (IF x[j] = 0 \/ s <= -12 THEN 0
              ELSE IF s >= 0 THEN x[j] * 2^s ELSE x[j] \div 2^(-s))
             + Taken(x, lo, j + 1)

\* the integer m < 2^36 at bit position pos: m * 2^pos in the last fraction
\* bits
Placed(m, pos) ==
    Only({Settled(Listed([j \in 1..9 |->
                             IF j = k THEN (v % 4096) * 2^(pos % 12)
                             ELSE IF j = k - 1 THEN ((v \div 4096) % 4096) * 2^(pos % 12)
                                  ELSE IF j = k - 2 THEN (v \div 16777216) * 2^(pos % 12)
                                       ELSE 0], 9)) :
          v \in {m}, k \in {9 - (pos \div 12)}})

\* the square root of radicand * 4^14 digit by digit: the pairs of bits of
\* the radicand from the i-th down, then 14 pairs of zeros
RECURSIVE Rooted(_, _, _, _)
Rooted(radicand, i, root, remainder) ==
    IF i < -14 THEN [root |-> root, inexact |-> remainder # 0]
    ELSE Only({IF current >= 4 * r + 1
               THEN Rooted(radicand, i - 1, 2 * r + 1, current - (4 * r + 1))
               ELSE Rooted(radicand, i - 1, 2 * r, current) :
               current \in {remainder * 4 + (IF i >= 0 THEN (radicand \div 4^i) % 4 ELSE 0)},
               r \in {root}})

\* the 26 or 27 bits of a root and what is left under them, to 24 bits
RootRounded(found) ==
    LET d == BitLength(found.root) - 24
        guard == (found.root \div 2^(d - 1)) % 2
        rest == found.root % 2^(d - 1) # 0 \/ found.inexact
        lsb == (found.root \div 2^d) % 2
    IN  (found.root \div 2^d) + (IF guard = 1 /\ (rest \/ lsb = 1) THEN 1 ELSE 0)

\* np.sqrt of an np.float32: the np.float32 nearest to the root.  The 24 bits
\* of x, taken from the even position lo, are its radicand.
RootAt(x, lo) ==
    Only({Placed(RootRounded(found), (lo \div 2) + 34 + BitLength(found.root) - 24) :
          found \in {Only({Rooted(radicand, 12, 0, 0) : radicand \in {Taken(x, lo, 1)}})}})
Root(number) ==
    Only({IF LeadBit(x) = -1 THEN x
          ELSE RootAt(x, 2 * (Max(0, LeadBit(x) - 23) \div 2)) : x \in {number}})

\* _load_wav_mono: an int16 as np.float32, divided by 32768.0
Sample(value) == FloatOver(Whole(value), 32768, 24)

\* frame_size = max(1, int(sample_rate_hz * 0.02))
FrameSize(sample_rate_hz) ==
    Max(1, Trunc(FloatTimesWhole(Double(FrameMs), sample_rate_hz, 53)))

\* range(0, audio_len, frame_size): the number of frames
FrameCount(buffer, frame_size) == (Len(buffer) + frame_size - 1) \div frame_size

\* audio[idx : idx + frame_size] for the i-th frame, i from 0
FrameAt(buffer, i, frame_size) ==
    SubSeq(buffer, i * frame_size + 1, Min((i + 1) * frame_size, Len(buffer)))

\* frame * frame for one np.float32 sample
Squared(value) == Only({FloatTimes(sample, sample, 24) : sample \in {Sample(value)}})

\* numpy's pairwise summation takes blocks of 8 elements, and halves what is
\* longer than 128 elements
PairwiseLanes == 8
PairwiseBlock == 128

\* r[j] of the pairwise sum of the squares after the lo-th, after k blocks:
\* the j-th square of the first block and of each block after it, added in
\* order
RECURSIVE Lane(_, _, _, _)
Lane(frame, lo, j, k) ==
    IF k = 1 THEN Squared(frame[lo + j])
    ELSE Only({FloatPlus(r, Squared(frame[lo + PairwiseLanes * (k - 1) + j]), 24) :
               r \in {Lane(frame, lo, j, k - 1)}})

\* `res += a[i]` for the squares first..last of the frame, in order
RECURSIVE AddedInOrder(_, _, _, _)
AddedInOrder(res, frame, first, last) ==
    IF last < first THEN res
    ELSE Only({FloatPlus(sum, Squared(frame[last]), 24) :
               sum \in {AddedInOrder(res, frame, first, last - 1)}})

\* np.add.reduce of the n np.float32 squares after the lo-th of frame * frame:
\* fewer than 8 are added in order; up to 128 are added into 8 partial sums
\* r[0..7], block by block, the partial sums are added as
\* ((r[0] + r[1]) + (r[2] + r[3])) + ((r[4] + r[5]) + (r[6] + r[7])), and the
\* squares after the last whole block are added to that in order; more than
\* 128 are split at n / 2 brought down to a multiple of 8, and the sums of the
\* two parts are added
RECURSIVE PairwiseSum(_, _, _)
PairwiseSum(frame, lo, n) ==
    IF n < PairwiseLanes THEN AddedInOrder(Whole(0), frame, lo + 1, lo + n)
    ELSE IF n <= PairwiseBlock
         THEN Only({AddedInOrder(
                        FloatPlus(FloatPlus(FloatPlus(r[1], r[2], 24),
                                            FloatPlus(r[3], r[4], 24), 24),
                                  FloatPlus(FloatPlus(r[5], r[6], 24),
                                            FloatPlus(r[7], r[8], 24), 24), 24),
                        frame, lo + PairwiseLanes * (n \div PairwiseLanes) + 1, lo + n) :
                    r \in {Listed([j \in 1..PairwiseLanes |->
                                      Lane(frame, lo, j, n \div PairwiseLanes)],
                                  PairwiseLanes)}})
         ELSE Only({FloatPlus(first, second, 24) :
                    first \in {PairwiseSum(frame, lo, (n \div 2) - ((n \div 2) % PairwiseLanes))},
                    second \in {PairwiseSum(
                                    frame, lo + (n \div 2) - ((n \div 2) % PairwiseLanes),
                                    n - ((n \div 2) - ((n \div 2) % PairwiseLanes)))}})

\* the sum np.mean takes of frame * frame in np.float32
SumSquares(frame) == Only({PairwiseSum(samples, 0, Len(samples)) : samples \in {frame}})

\* float(np.sqrt(np.mean(frame * frame))): np.mean divides the np.float32 sum
\* by the count in np.float64 and returns np.float32
Rms(samples) ==
    Only({Root(Rounded(FloatOver(SumSquares(frame), Len(frame), 53),
                       24, FALSE)) : frame \in {samples}})

\* rms_array
RmsArray(sound, frame_size) ==
    Only({Listed([i \in 1..FrameCount(buffer, frame_size) |->
                     Rms(FrameAt(buffer, i - 1, frame_size))],
                 FrameCount(buffer, frame_size)) : buffer \in {sound}})

\* the values in ascending order: the k-th is the one with k - 1 values
\* before it, equal values in the order they have
Sorted(values) ==
    Only({Listed([k \in 1..Len(seq) |->
                     seq[CHOOSE i \in 1..Len(seq) :
                            Cardinality({j \in 1..Len(seq) :
                                            \/ Below(seq[j], seq[i])
                                            \/ seq[j] = seq[i] /\ j < i}) = k - 1]],
                 Len(seq)) : seq \in {values}})

\* _lerp(a, b, t): a + (b - a) * t, or b - (b - a) * (1 - t) from t = 0.5 on.
\* b - a is np.float32, the rest is computed in `bits` bits.
Lerp(previous, next, gamma, bits) ==
    Only({IF Below(t, FloatOver(Whole(1), 2, bits))
          THEN FloatPlus(a, FloatTimes(diff_b_a, t, bits), bits)
          ELSE FloatDifference(b, FloatTimes(diff_b_a, FloatDifference(Whole(1), t, bits),
                                             bits), bits) :
          a \in {previous}, b \in {next}, t \in {gamma},
          diff_b_a \in {FloatDifference(next, previous, 24)}})

\* np.percentile(rms_array, 10), method "linear": q = 10 / 100, the virtual
\* index (n - 1) * q, gamma its fraction, and _lerp between the sorted values
\* on both sides of it.  numpy 1 (from 1.22) takes q and gamma as np.float64,
\* numpy 2 gives them the np.float32 of the array: `bits` is 53 or 24.
Percentile(rms_array, bits) ==
    Only({LET n == Len(sorted)
              previous_index == Trunc(virtual_index)
              gamma == [virtual_index EXCEPT ![1] = 0]
          IN  IF previous_index >= n - 1
              THEN Lerp(sorted[n], sorted[n], gamma, bits)
              ELSE Lerp(sorted[previous_index + 1], sorted[previous_index + 2], gamma,
                        bits) :
          sorted \in {Sorted(rms_array)},
          virtual_index \in {FloatTimesWhole(FloatOver(Whole(10), 100, bits),
                                             Len(rms_array) - 1, bits)}})

\* threshold: vad_rms_threshold when it is positive and
\* max(noise_floor * 2.5, 0.003) otherwise, Python floats
Threshold(rms_array, vad_rms_threshold, bits) ==
    IF vad_rms_threshold > 0 THEN Double(vad_rms_threshold)
    ELSE Only({IF Below(scaled, Double(FloorRms)) THEN Double(FloorRms) ELSE scaled :
               scaled \in {FloatTimes(Percentile(rms_array, bits),
                                      FloatOver(Whole(5), 2, 53), 53)}})

\* silence_frames = rms_array < threshold: the comparison is in np.float32
SilenceFrames(buffer, frame_size, vad_rms_threshold, bits) ==
    Only({Only({Listed([i \in 1..Len(rms_array) |-> Below(rms_array[i], threshold)],
                       Len(rms_array)) :
                threshold \in {Rounded(Threshold(rms_array, vad_rms_threshold, bits),
                                       24, FALSE)}}) :
          rms_array \in {RmsArray(buffer, frame_size)}})

NoRun == -1

\* the loop over enumerate(silence_frames) from frame idx on, run_start as the
\* loop has it, and the test after the loop: the runs of at least
\* min_silence_frames silent frames, as (first frame, frame after the last)
RECURSIVE SilenceRegions(_, _, _, _)
SilenceRegions(silence_frames, min_silence_frames, idx, run_start) ==
    IF idx = Len(silence_frames)
    THEN IF run_start # NoRun /\ Len(silence_frames) - run_start >= min_silence_frames
         THEN <<<<run_start, Len(silence_frames)>>>>
         ELSE <<>>
    ELSE LET silent == silence_frames[idx + 1]
         IN  IF silent /\ run_start = NoRun
             THEN SilenceRegions(silence_frames, min_silence_frames, idx + 1, idx)
             ELSE IF ~silent /\ run_start # NoRun
                  THEN (IF idx - run_start >= min_silence_frames
                        THEN <<<<run_start, idx>>>>
                        ELSE <<>>)
                       \o SilenceRegions(silence_frames, min_silence_frames,
                                         idx + 1, NoRun)
                  ELSE SilenceRegions(silence_frames, min_silence_frames,
                                      idx + 1, run_start)

\* int(seconds * sample_rate_hz) for seconds written as t / 1000
Samples(t, sample_rate_hz) == Trunc(FloatTimesWhole(Double(t), sample_rate_hz, 53))

\* min_silence_frames = max(1, int(min_silence_seconds * sample_rate_hz / frame_size))
MinSilenceFrames(call, frame_size) ==
    Max(1, Trunc(FloatOver(FloatTimesWhole(Double(call.min_silence_ms),
                                           call.sample_rate_hz, 53),
                           frame_size, 53)))

\* silence_samples: the kept runs in samples
SilenceSamples(call) ==
    Only({[k \in 1..Len(regions) |->
              <<regions[k][1] * frame_size,
                Min(regions[k][2] * frame_size, Len(call.audio))>>] :
          frame_size \in {FrameSize(call.sample_rate_hz)},
          regions \in {Only({SilenceRegions(silence_frames, min_silence_frames,
                                            0, NoRun) :
                             silence_frames \in
                                 {SilenceFrames(call.audio, FrameSize(call.sample_rate_hz),
                                                call.vad_rms_threshold,
                                                call.quantile_bits)},
                             min_silence_frames \in
                                 {MinSilenceFrames(call,
                                                   FrameSize(call.sample_rate_hz))}})}})

\* Variants for comparison: no size cap at all, and a cap of one sample
MaxSegUncapped(call) == Len(call.audio)
MaxSegOneSample(call) == 1

\* A variant for comparison: max_seg without its floors, neither the minimum
\* length nor the whole buffer for a maximum of 0
MaxSegUnfloored(call) == Samples(call.max_segment_ms, call.sample_rate_hz)

\* min_seg, max_seg and pad
MinSeg(call) == Max(1, Samples(call.min_segment_ms, call.sample_rate_hz))
MaxSeg(call) ==
    IF call.max_segment_ms > 0
    THEN Max(MinSeg(call), Samples(call.max_segment_ms, call.sample_rate_hz))
    ELSE Len(call.audio)
Pad(call) == Max(0, Samples(call.padding_ms, call.sample_rate_hz))

NoCut == -1

\* `for s_start, s_end in silence_samples` from the k-th run on, cut as the
\* loop has it
RECURSIVE CutFrom(_, _, _, _, _, _)
CutFrom(silence_samples, k, start, min_seg, target_end, cut) ==
    IF k > Len(silence_samples) THEN cut
    ELSE LET mid == (silence_samples[k][1] + silence_samples[k][2]) \div 2
         IN  IF mid <= start
             THEN CutFrom(silence_samples, k + 1, start, min_seg, target_end, cut)
             ELSE IF mid - start < min_seg
                  THEN CutFrom(silence_samples, k + 1, start, min_seg, target_end, cut)
                  ELSE IF mid > target_end
                       THEN cut
                       ELSE CutFrom(silence_samples, k + 1, start, min_seg,
                                    target_end, mid)

\* a call of _split_on_silence with its arguments, before its first line
SplitCall(buffer, settings) ==
    [pc |-> "called", audio |-> buffer, sample_rate_hz |-> settings.sample_rate_hz,
     min_silence_ms |-> settings.min_silence_ms,
     min_segment_ms |-> settings.min_segment_ms,
     max_segment_ms |-> settings.max_segment_ms,
     padding_ms |-> settings.padding_ms,
     vad_rms_threshold |-> settings.vad_rms_threshold,
     quantile_bits |-> settings.quantile_bits,
     silence_samples |-> <<>>, min_seg |-> 0, max_seg |-> 0, pad |-> 0,
     start |-> 0, segments |-> <<>>, ranges |-> <<>>]

\* no call in progress
NoSplit == [pc |-> "idle"]

SplitFrame ==
    UNCHANGED <<now, ctrl_vars, run_vars, load_vars, idle_vars, post_vars, out_vars,
                hotkey_vars, rewrite_vars, history>>

\* _split_on_silence up to `start = 0`: an empty buffer returns [] at once
SplitPrepare ==
    /\ split.pc = "called"
    /\ split' = IF Len(split.audio) = 0
                THEN [split EXCEPT !.pc = "done"]
                ELSE [split EXCEPT !.pc = "walk",
                                   !.silence_samples = SilenceSamples(split),
                                   !.min_seg = MinSeg(split),
                                   !.max_seg = MaxSeg(split),
                                   !.pad = Pad(split)]
    /\ SplitFrame

\* A variant for comparison: the silence runs are not looked at
SegmentEndAtTarget(cut, target_end) == target_end

\* `end = cut if cut is not None else target_end`
SegmentEnd(cut, target_end) == IF cut # NoCut THEN cut ELSE target_end

\* A variant for comparison: padding that is not clamped to the buffer
PaddedUnclamped(start, end, pad, audio_len) == <<start - pad, end + pad>>

\* (seg_start, seg_end): the range widened by pad, clamped to the buffer
Padded(start, end, pad, audio_len) ==
    <<Max(0, start - pad), Min(audio_len, end + pad)>>

\* A variant for comparison: the walk goes on from the padded end
NextStartPadded(end, seg_end) == seg_end

\* `start = end`
NextStart(end, seg_end) == end

\* one iteration of `while start < audio_len`.  segments is the list the code
\* builds (padded); ranges keeps the (start, end) of each iteration beside it.
SplitStep ==
    /\ split.pc = "walk"
    /\ split.start < Len(split.audio)
    /\ LET audio_len == Len(split.audio)
           start == split.start
           target_end == Min(start + split.max_seg, audio_len)
           cut == CutFrom(split.silence_samples, 1, start, split.min_seg,
                          target_end, NoCut)
           first_end == SegmentEnd(cut, target_end)
           end == IF first_end <= start
                  THEN Min(start + split.max_seg, audio_len)
                  ELSE first_end
           seg_start == Padded(start, end, split.pad, audio_len)[1]
           seg_end == Padded(start, end, split.pad, audio_len)[2]
       IN  split' = IF end <= start
                    THEN [split EXCEPT !.pc = "done"]
                    ELSE [split EXCEPT
                             !.segments = Append(@, <<seg_start, seg_end>>),
                             !.ranges = Append(@, <<start, end>>),
                             !.start = NextStart(end, seg_end)]
    /\ SplitFrame

\* the loop condition fails: return segments
SplitReturn ==
    /\ split.pc = "walk"
    /\ split.start >= Len(split.audio)
    /\ split' = [split EXCEPT !.pc = "done"]
    /\ SplitFrame

(* ---------------------------------------------------------------------- *)
(* The clock and the specifications                                       *)
(* ---------------------------------------------------------------------- *)

Advance(step, horizon) ==
    /\ now + step <= horizon
    /\ now' = now + step
    /\ UNCHANGED <<ctrl_vars, run_vars, load_vars, idle_vars, side_vars, history>>

\* the machines the app is started on: 8 GiB and 16 GiB of memory, in KiB;
\* for the model threads also one KiB under 16 GiB and a memory size that
\* could not be read
LowMemory == LowMemoryKiB \div 2
Memories == {LowMemory, LowMemoryKiB}
ModelMemories == Memories \cup {LowMemoryKiB - 1, NoMemory}

\* DictateApp.__init__ for a configuration: the total memory, is the
\* configured model already in models_dir(), the configured idle minutes.
\* It ends with _start_model_download(current, warmup=False) or
\* _start_model_warmup(current).
AppInit(memory, have, minutes) ==
    /\ now = 0
    /\ recording = FALSE
    /\ audio = AudioInit
    /\ pending_stop_timer = NoTimer
    /\ pending_stop_path = NoPath
    /\ stop_timers = {}
    /\ files = {}
    /\ rec_seq = 0
    /\ main = NoCall
    /\ runs = {}
    /\ transcribing_count = 0
    /\ total_memory_kib = memory
    /\ model_override = NoModel
    /\ downloaded = IF have THEN {DefaultModel} ELSE {}
    /\ partial = {}
    /\ holder_model = NoModel
    /\ warmup_id = 1
    /\ model_loading = ~(DeferWarmup(memory) /\ have)
    /\ tasks = IF DeferWarmup(memory)
               THEN IF have THEN {} ELSE {NewTask(1, DefaultModel, FALSE, "download")}
               ELSE {NewTask(1, DefaultModel, TRUE, "warm")}
    /\ overrides = 0
    /\ model_idle_minutes = minutes
    /\ model_idle_seconds = IF minutes = NoMinutes
                            THEN (IF DeferWarmup(memory) THEN DefaultIdleMinutes * SecondsPerMinute ELSE 0)
                            ELSE (IF minutes <= 0 THEN 0 ELSE minutes * SecondsPerMinute)
    /\ model_idle_timer = NoTimer
    /\ idle_timers = {}
    /\ idle_seq = 0
    /\ idle_changes = 0
    /\ last_model_use = 0
    /\ last_model_id = NoModel
    /\ handlers = {}
    /\ history = HistoryInit

\* the post-processing settings of a new configuration: disabled, no base URL
\* and no model of its own, no key
PostInit ==
    /\ postprocess = [enabled |-> FALSE, base_url |-> "", model |-> ""]
    /\ keychain = FALSE

\* what the inference of transcribe_audio can meet: an exception, and the
\* results mlx_whisper.transcribe can hand to _extract_text
Transcription(kind, has_text, text) == [kind |-> kind, has_text |-> has_text, text |-> text]
Transcriptions ==
    {Transcription("raised", FALSE, <<>>),
     Transcription("dict", TRUE, <<"hello">>),
     Transcription("dict", TRUE, <<Blank, "hello", Blank>>),
     Transcription("dict", TRUE, <<Blank>>),
     Transcription("dict", FALSE, <<>>),
     Transcription("str", FALSE, <<"hello">>),
     Transcription("other", FALSE, <<>>)}

\* nothing written, nothing pasted
OutInit ==
    /\ transcripts = {}
    /\ clipboard = <<>>
    /\ pasted = <<>>

\* the HotkeyManager DictateApp.__init__ creates and registers `hotkey` with,
\* the monotonic clock reading `base` ms
TapInit(hotkey, base) ==
    /\ hotkeys = HotkeyManagerInit(hotkey)
    /\ tap_call = NoTapCall
    /\ monotonic_base = base
    /\ tap_event = NoEvent
    /\ tap_count = 0
    /\ toggles_fired = 0
    /\ hotkey_changes = 0
    /\ key_history = KeyHistoryInit

InitWith(memory, have, minutes) ==
    /\ AppInit(memory, have, minutes)
    /\ PostInit
    /\ OutInit
    /\ TapInit(DefaultHotkey, 0)
    /\ split = NoSplit
    /\ rewrite = NoRewrite

\* the text of a recording with speech in it, and a rewrite request never sent
Spoken == <<"hello">>

\* toggle_recording called as the hotkey monitor calls it, the monitor itself
\* left aside
ToggleAlone(met, limit) == ToggleRecording(met, limit) /\ UNCHANGED hotkey_vars

Init == \E memory \in Memories, have \in BOOLEAN : InitWith(memory, have, NoMinutes)

\* an inference that raises and one that returns the text spoken
Heard == {Transcription("raised", FALSE, <<>>), Transcription("dict", TRUE, Spoken)}

Toggle == \E met \in StartOutcomes : ToggleAlone(met, MaxRecordings)

\* the steps in which a call of toggle_recording goes on to its return
Cancel == CancelTimer \/ \E ok \in BOOLEAN : CancelUnlink(ok)
Finish == StartedRecording \/ StopSchedule
StopTimer == \E t \in stop_timers :
                \/ StopTimerFire(t)
                \/ FinalizeTranscription(t)
                \/ StartTranscription(t)
Run == \E r \in runs :
          \/ RunBegin(r)
          \/ RunMark(r)
          \/ RunUse(r)
          \/ RunSchedule(r)
          \/ RunArm(r)
          \/ RunTranscribe(r)
          \/ FineRunEnsure(r)
          \/ \E ok \in BOOLEAN : FineRunFetch(r, ok)
          \/ FineRunCheck(r)
          \/ FineRunAcquire(r)
          \/ \E ok \in BOOLEAN : FineRunLoad(r, ok)
          \/ \E result \in Heard : FineRunInfer(r, result)
          \/ RunDeliver(r)
          \/ \E ok \in BOOLEAN : RunWrite(r, ok)
          \/ RunPaste(r)
          \/ RunCopy(r)
          \/ RunCommandV(r)
          \/ RunEnd(r)
Task == \E t \in tasks :
          \/ FineTaskEnsure(t)
          \/ \E ok \in BOOLEAN : FineTaskFetch(t, ok)
          \/ FineTaskCheck(t)
          \/ FineTaskAcquire(t)
          \/ \E ok \in BOOLEAN : FineTaskLoad(t, ok)
          \/ TaskMark(t)
          \/ TaskSchedule(t)
          \/ TaskFinishTest(t)
          \/ TaskFinishClear(t)

\* a warmup thread arms the idle timer: only where the app has a threshold
\* above 0 on a machine that warms the model
TaskTimer == \E t \in tasks : TaskArm(t)
Override == \E m \in Models, saved \in BOOLEAN : SetModelOverride(m, saved)

\* the steps in which a call of set_model_override goes on to its return
Download == \/ NextWarmupId
            \/ SetModelLoading
            \/ StartModelDownload(main.model, ~defer_warmup)
            \/ ClearModelLoading
Delete == \E m \in Models : \E removal \in RemoveOutcomes : DeleteDownloadedModel(m, removal)
Tick == Advance(FineStepMs, MaxFineSteps * FineStepMs)

\* Spec: the recording controller, the debounce timers, the transcription
\* threads and the startup warmup, with the clock in steps of 200 ms
Next == Toggle \/ Cancel \/ Finish \/ StopTimer \/ Run \/ Task \/ Tick

Spec == Init /\ [][Next]_vars

\* BurstSpec: Spec with a third recording
BurstToggle == \E met \in StartOutcomes : ToggleAlone(met, MaxBurstRecordings)
BurstNext == BurstToggle \/ Cancel \/ Finish \/ StopTimer \/ Run \/ Task \/ Tick

BurstSpec == Init /\ [][BurstNext]_vars

\* LoadSpec: Spec with recordings that start and the model selection changed
\* while the app runs, the clock in steps of a debounce window
LoadEvents == rec_seq + overrides
LoadToggle == ToggleAlone("started", MaxLoadEvents - overrides)
LoadOverride == LoadEvents < MaxLoadEvents /\ Override
Window == Advance(StopCancelWindowMs, MaxWindowSteps * StopCancelWindowMs)
LoadNext == LoadToggle \/ Cancel \/ Finish \/ StopTimer \/ Run \/ Task \/ LoadOverride
            \/ Download \/ Window

LoadSpec == Init /\ [][LoadNext]_vars

IdleInit == \E memory \in Memories, have \in BOOLEAN, minutes \in IdleMinuteChoices :
               InitWith(memory, have, minutes)

\* IdleSpec: the idle unload beside everything that marks the model used or
\* makes the app busy, with the clock in steps of one minute
IdleEvents == rec_seq + overrides + idle_changes + now \div CoarseStepMs
IdleToggle ==
    \E met \in StartOutcomes :
        ToggleAlone(met, MaxIdleEvents - overrides - idle_changes - now \div CoarseStepMs)
IdleOverride == IdleEvents < MaxIdleEvents /\ Override
IdleChange == /\ IdleEvents < MaxIdleEvents
              /\ \E minutes \in IdleMinuteChoices, saved \in BOOLEAN :
                     SetModelIdleMinutes(minutes, saved)

\* the steps in which a call of set_model_idle_minutes goes on to its return
Reschedule == MainSchedule \/ MainArm
IdleTimer == \E t \in idle_timers : IdleTimerFire(t)
IdleHandler == \E h \in handlers :
                  \/ IdleLocked(h)
                  \/ IdleTimeCheck(h)
                  \/ IdleBusyCheck(h)
                  \/ IdleTranscribingCheck(h)
                  \/ IdleLoadingCheck(h)
                  \/ IdleModelCheck(h)
                  \/ IdleReschedule(h)
                  \/ IdleArm(h)
                  \/ IdleUnloadCheck(h)
                  \/ FineUnloadAcquire(h)
                  \/ FineUnloadClear(h)
Minute == Advance(CoarseStepMs, MaxCoarseSteps * CoarseStepMs)
IdleMinute == IdleEvents < MaxIdleEvents /\ Minute

IdleNext == IdleToggle \/ Cancel \/ Finish \/ StopTimer \/ Run \/ Task \/ TaskTimer
            \/ IdleOverride \/ Download \/ IdleChange \/ Reschedule \/ IdleTimer
            \/ IdleHandler \/ IdleMinute

IdleSpec == IdleInit /\ [][IdleNext]_vars

\* ModelSpec: the threads that download and load the model on every machine,
\* a memory size that could not be read included, beside the controller that
\* starts them and the deletion of models, with no idle unload configured and
\* the clock in steps of one minute
ModelInit == \E memory \in ModelMemories, have \in BOOLEAN : InitWith(memory, have, NoMinutes)
ModelEvents == rec_seq + overrides
ModelToggle == \E met \in StartOutcomes : ToggleAlone(met, MaxModelEvents - overrides)
ModelOverride == ModelEvents < MaxModelEvents /\ Override

ModelNext == ModelToggle \/ Cancel \/ Finish \/ StopTimer \/ Run \/ Task
             \/ ModelOverride \/ Download \/ Delete \/ Minute

ModelSpec == ModelInit /\ [][ModelNext]_vars

\* DeliverSpec: the transcription threads with every text transcribe_audio can
\* return and every way the rewrite request can end, under each configuration
\* of the post-processing, with the clock in steps of a debounce window
RawTexts == {<<>>, Spoken}
Choice(message, text) == [message |-> message, text |-> text]
Json(choices) == [kind |-> "json", choices |-> choices]
Replies ==
    {[kind |-> k, choices |-> <<>>] : k \in {"http_error", "url_error", "invalid_json"}}
    \cup {Json(<<>>),
          Json(<<Choice(Some(<<"Hello.">>), Absent)>>),
          Json(<<Choice(Absent, Some(<<"Hello.">>))>>),
          Json(<<Choice(Absent, Absent)>>),
          Json(<<Choice(Some(<<>>), Some(<<"Hello.">>))>>),
          Json(<<Choice(Some(<<OpenTag, "Hello.", CloseTag, Blank>>), Absent)>>),
          Json(<<Choice(Some(<<OpenTag, CloseTag>>), Absent)>>)}

\* the base_url of the [postprocess] table of the configuration file: a text
\* that is empty, blank, the URL, or the URL between blanks
ConfigBaseUrls == {<<>>, <<Blank>>, <<"https://proxy.example">>,
                   <<Blank, "https://proxy.example", Blank>>}

DeliverInit ==
    \E enabled \in BOOLEAN, key \in BOOLEAN, base_url \in ConfigBaseUrls :
        /\ AppInit(LowMemory, TRUE, NoMinutes)
        /\ postprocess = [enabled |-> enabled, base_url |-> LoadedBaseUrl(base_url),
                          model |-> ""]
        /\ keychain = key
        /\ OutInit
        /\ TapInit(DefaultHotkey, 0)
        /\ split = NoSplit
        /\ rewrite = NoRewrite
DeliverToggle == ToggleAlone("started", MaxDeliverRecordings)
DeliverRun == \E r \in runs :
                 \/ RunBegin(r)
                 \/ RunMark(r)
                 \/ RunUse(r)
                 \/ RunSchedule(r)
                 \/ RunArm(r)
                 \/ RunTranscribe(r)
                 \/ FineRunEnsure(r)
                 \/ FineRunCheck(r)
                 \/ FineRunAcquire(r)
                 \/ \E ok \in BOOLEAN : FineRunLoad(r, ok)
                 \/ \E result \in Transcriptions : FineRunInfer(r, result)
                 \/ RunDeliver(r)
                 \/ RunBuildConfig(r)
                 \/ RunPostprocess(r)
                 \/ \E reply \in Replies : RunRequest(r, reply)
                 \/ \E ok \in BOOLEAN : RunWrite(r, ok)
                 \/ RunPaste(r)
                 \/ RunCopy(r)
                 \/ RunCommandV(r)
                 \/ RunEnd(r)

\* the settings window changes the post-processing, and the key comes and goes
SetterBaseUrls == {"", "https://proxy.example"}
PostprocessModels == {"", DefaultPostprocessModel}
Setting == \/ \E enabled \in BOOLEAN : SetPostprocessEnabled(enabled)
           \/ \E base_url \in SetterBaseUrls : SetPostprocessBaseUrl(base_url)
           \/ \E model \in PostprocessModels : SetPostprocessModel(model)
           \/ \E saved \in BOOLEAN : SetPostprocessApiKey(saved)
           \/ \E removed \in BOOLEAN : DeletePostprocessApiKey(removed)
DeliverNext ==
    DeliverToggle \/ Cancel \/ Finish \/ StopTimer \/ DeliverRun \/ Setting \/ Window

DeliverSpec == DeliverInit /\ [][DeliverNext]_vars

\* PasteSpec: DeliverSpec with a second recording, whose thread runs beside
\* the thread of the first, under the default base URL and model, with the
\* post-processing switched on and off and the key coming and going
PasteInit ==
    \E enabled \in BOOLEAN, key \in BOOLEAN :
        /\ AppInit(LowMemory, TRUE, NoMinutes)
        /\ postprocess = [enabled |-> enabled, base_url |-> "", model |-> ""]
        /\ keychain = key
        /\ OutInit
        /\ TapInit(DefaultHotkey, 0)
        /\ split = NoSplit
        /\ rewrite = NoRewrite
PasteToggle == ToggleAlone("started", MaxPasteRecordings)
PasteSetting == \/ \E enabled \in BOOLEAN : SetPostprocessEnabled(enabled)
                \/ \E saved \in BOOLEAN : SetPostprocessApiKey(saved)
                \/ \E removed \in BOOLEAN : DeletePostprocessApiKey(removed)
PasteNext ==
    PasteToggle \/ Cancel \/ Finish \/ StopTimer \/ DeliverRun \/ PasteSetting \/ Tick

PasteSpec == PasteInit /\ [][PasteNext]_vars

\* RewriteSpec: postprocess_text called with every configuration, with and
\* without a key, and every way the request can end
BaseUrls == {"", Blank, "https://proxy.example"}
RewriteInit ==
    \E text \in RawTexts, enabled \in BOOLEAN, base_url \in BaseUrls,
       model \in PostprocessModels, key \in BOOLEAN, reply \in Replies :
        /\ AppInit(LowMemory, TRUE, NoMinutes)
        /\ postprocess = [enabled |-> FALSE, base_url |-> "", model |-> ""]
        /\ keychain = key
        /\ OutInit
        /\ TapInit(DefaultHotkey, 0)
        /\ split = NoSplit
        /\ rewrite = RewriteCall(text, [enabled |-> enabled, base_url |-> base_url,
                                        model |-> model], reply)
KeyChange == \/ \E saved \in BOOLEAN : SetPostprocessApiKey(saved)
             \/ \E removed \in BOOLEAN : DeletePostprocessApiKey(removed)
RewriteNext == RewriteSend \/ RewriteReceive \/ KeyChange

RewriteSpec == RewriteInit /\ [][RewriteNext]_vars

\* HotkeySpec: the event tap under each kind of binding, with the clock in
\* steps of half the double-tap window, read from a monotonic clock that
\* counts from the start of the machine: the app starts once the clock is
\* well past the double-tap window, a fraction of a second or a minute after.
\* The keyboard sends the bound key under every set of modifiers and another
\* key under the bound modifier.
TapStepMs == FnDoubleTapMs \div 2
MonotonicBases == {2 * MaxTapSteps * TapStepMs, CoarseStepMs}
Keycodes == {1, 2}
Hotkeys == {Hotkey({"ctrl"}, 1), Hotkey({"fn"}, NoKeycode), DefaultHotkey,
            Hotkey({"ctrl"}, NoKeycode)}
EventFlags == {{}, {"fn"}, {"ctrl"}, {"ctrl", "fn"}, {"ctrl", "caps"}}
Events ==
    {[type |-> "flags", keycode |-> NoKeycode, flags |-> f] : f \in EventFlags}
    \cup {[type |-> "down", keycode |-> 1, flags |-> f] : f \in EventFlags}
    \cup {[type |-> "down", keycode |-> 2, flags |-> {"ctrl"}]}
    \cup {[type |-> "up", keycode |-> k, flags |-> {}] : k \in Keycodes}

HotkeyInit ==
    \E hotkey \in Hotkeys, base \in MonotonicBases :
        /\ AppInit(LowMemory, TRUE, NoMinutes)
        /\ PostInit
        /\ OutInit
        /\ TapInit(hotkey, base)
        /\ split = NoSplit
        /\ rewrite = NoRewrite
\* what self._audio.start() can meet when the tap delivers ev: every outcome
\* in a callback that fires; one that does not fire calls nothing, and the
\* outcome is not looked at
TapOutcomes(ev) ==
    IF Handled(hotkeys, ev, Monotonic).fired THEN StartOutcomes ELSE {"started"}
Tap == \E ev \in Events : \E met \in TapOutcomes(ev) : EventCallback(ev, met, MaxTapEvents)
Rebind == \E hotkey \in Hotkeys : SetHotkey(hotkey)
TapTick == Advance(TapStepMs, MaxTapSteps * TapStepMs)
HotkeyNext == Tap \/ Cancel \/ Finish \/ Rebind \/ TapTick

HotkeySpec == HotkeyInit /\ [][HotkeyNext]_vars

\* SplitSpec: one call of _split_on_silence for each buffer and each setting,
\* and for two longer recordings
Buffers == UNION {[1..n -> {0, SpeechSample}] : n \in 0..MaxSamples}
SampleRates == {50, 100}
SilenceMs == {0, 40}
MinSegmentMs == {0, 40}
MaxSegmentMs == {0, 20, 60}
PaddingMs == {0, 20}
VadThresholds == {0, 5}

\* the numpy of the build: np.percentile computes in np.float64 (numpy 1) or
\* in the np.float32 of the array (numpy 2)
QuantileBits == {24, 53}

\* recordings with frames of 8 samples and of the 320 samples of the rate the
\* app records at (Settings.sample_rate_hz), whose squares numpy adds
\* pairwise: three frames at 400 Hz, the second of them within one np.float32
\* of the threshold 0.3, and a loud, a quiet and a loud frame at 16000 Hz
LoudSample == 20000
NearThreshold == <<13953, 21386, 3119, 3552, 8467, 5110, 160, 935>>
NearThresholdCall ==
    [audio |-> [i \in 1..24 |-> IF i \in 9..16 THEN NearThreshold[i - 8] ELSE LoudSample],
     sample_rate_hz |-> 400, vad_rms_threshold |-> 300]
AppSampleRate == 16000
AppFramesCall ==
    Only({[audio |-> [i \in 1..(3 * frame_size) |->
                         IF i \in (frame_size + 1)..(2 * frame_size)
                         THEN (i * 31) % 200
                         ELSE 1000 + ((i * 7919) % LoudSample)],
           sample_rate_hz |-> AppSampleRate, vad_rms_threshold |-> 5] :
          frame_size \in {FrameSize(AppSampleRate)}})
LongCalls == {NearThresholdCall, AppFramesCall}
ShortCalls ==
    {[audio |-> buffer, sample_rate_hz |-> sample_rate_hz,
      vad_rms_threshold |-> vad_rms_threshold] :
        buffer \in Buffers, sample_rate_hz \in SampleRates,
        vad_rms_threshold \in VadThresholds}

SplitInit ==
    \E call \in ShortCalls \cup LongCalls, min_silence_ms \in SilenceMs,
       min_segment_ms \in MinSegmentMs, max_segment_ms \in MaxSegmentMs,
       padding_ms \in PaddingMs, quantile_bits \in QuantileBits :
        /\ AppInit(LowMemory, TRUE, NoMinutes)
        /\ PostInit
        /\ OutInit
        /\ TapInit(DefaultHotkey, 0)
        /\ rewrite = NoRewrite
        /\ split = SplitCall(call.audio,
                             [sample_rate_hz |-> call.sample_rate_hz,
                              min_silence_ms |-> min_silence_ms,
                              min_segment_ms |-> min_segment_ms,
                              max_segment_ms |-> max_segment_ms,
                              padding_ms |-> padding_ms,
                              vad_rms_threshold |-> call.vad_rms_threshold,
                              quantile_bits |-> quantile_bits])

SplitNext == SplitPrepare \/ SplitStep \/ SplitReturn

SplitSpec == SplitInit /\ [][SplitNext]_vars

(* ---------------------------------------------------------------------- *)
(* Properties of the recording controller                                 *)
(* ---------------------------------------------------------------------- *)

\* a step that is one call of toggle_recording: it takes another branch than
\* the call before it, or it calls AudioCapture.start() again (a call that
\* does neither was ignored like the one before it and changes nothing)
ToggleStep == history'.last_toggle # history.last_toggle \/ rec_seq' # rec_seq

\* the debounce timers whose callback has not started
ArmedStopTimers == {t \in stop_timers : ~t.fired}

\* the step in which _cancel_pending_transcription returns
CancelReturns == main.pc = "unlink" /\ MainIdle'

\* C1 as stated: a toggle that arrives while the controller is Idle and a
\* pending stop exists removes the pending stop under the lock and, by the
\* time it returns, has deleted its file and cancelled its timer; and no
\* transcription thread is ever started for a recording whose pending stop was
\* cancelled, also when the debounce callback had already started.
CancelledAlwaysDeleted ==
    [][/\ (ToggleStep /\ ~recording /\ HasPendingStop) =>
              /\ pending_stop_timer' = NoTimer
              /\ pending_stop_path' = NoPath
              /\ runs' = runs
              /\ RecAt(files, pending_stop_path) \in history'.cancelled
       /\ CancelReturns =>
              /\ ~FileExists(files', main.path)
              /\ \A t \in stop_timers' : t.id = main.timer => t.fired
              /\ runs' = runs
       /\ \A r \in history'.cancelled :
              /\ history'.dispatched[r] = 0
              /\ \A u \in runs' : u.rec # r
              /\ \A t \in stop_timers' : t.rec # r
      ]_vars

\* C1: a toggle that arrives while the controller is Idle and a pending stop
\* exists removes the pending stop under the lock and, by the time it returns,
\* has cancelled its timer and has deleted its file or, the deletion having
\* failed, has left the files as they were; and no transcription thread is
\* ever started for a recording whose pending stop was cancelled, also when
\* the debounce callback had already started.
CancelledNeverTranscribed ==
    [][/\ (ToggleStep /\ ~recording /\ HasPendingStop) =>
              /\ pending_stop_timer' = NoTimer
              /\ pending_stop_path' = NoPath
              /\ main' = [NoCall EXCEPT !.pc = "cancel", !.timer = pending_stop_timer,
                                        !.path = pending_stop_path]
              /\ runs' = runs
              /\ RecAt(files, pending_stop_path) \in history'.cancelled
       /\ CancelReturns =>
              /\ ~FileExists(files', main.path) \/ files' = files
              /\ \A t \in stop_timers' : t.id = main.timer => t.fired
              /\ runs' = runs
       /\ \A r \in history'.cancelled :
              /\ history'.dispatched[r] = 0
              /\ \A u \in runs' : u.rec # r
              /\ \A t \in stop_timers' : t.rec # r
      ]_vars

\* a pending stop was cancelled after its debounce callback had started, and
\* the callback has still to run
CancelledWhileFiring ==
    /\ history.last_toggle = "cancel"
    /\ MainIdle
    /\ ~HasPendingStop
    /\ \E t \in stop_timers : t.fired /\ t.id \in history.cancelled
    /\ \A f \in files : ~f.exists
    /\ runs = {}

\* the debounce callbacks that took the pending stop of recording r and have
\* still to call _start_transcription
Starting(r) == {t \in stop_timers : t.pc = "start" /\ t.rec = r}

\* C2: a stopped recording whose debounce callback ran without a cancelling
\* toggle has its pending stop cleared and exactly one transcription thread
\* started for it (the callback that cleared the pending stop starts it on
\* leaving the lock), and no recording is ever dispatched more than once.
DispatchedExactlyOnce ==
    \A r \in RecIds :
        /\ history.dispatched[r] + Cardinality(Starting(r)) <= 1
        /\ r \in (history.matured \ history.cancelled) =>
               /\ history.dispatched[r] + Cardinality(Starting(r)) = 1
               /\ pending_stop_timer # r

\* two recordings have matured, each dispatched once
TwoMatured ==
    \E r, q \in history.matured \ history.cancelled :
        /\ r # q
        /\ history.dispatched[r] = 1
        /\ history.dispatched[q] = 1
        /\ stop_timers = {}
        /\ ~HasPendingStop

\* C3: at most one debounce timer is armed, and the timer handle and the
\* pending path are both set or both unset.
OnePendingStop ==
    /\ Cardinality(ArmedStopTimers) <= 1
    /\ (pending_stop_timer = NoTimer) <=> (pending_stop_path = NoPath)

\* C4 as stated: a toggle while the controller is Idle and a model is loading
\* changes no state.
LoadingToggleIgnored ==
    [][(ToggleStep /\ ~recording /\ model_loading) =>
           UNCHANGED <<now, side_vars, ctrl_vars, run_vars, load_vars, idle_vars>>
      ]_vars

\* C4: a toggle while the controller is Idle, a model is loading and no
\* pending stop exists changes no state.
LoadingToggleIgnoredUnlessPending ==
    [][(ToggleStep /\ ~recording /\ model_loading /\ ~HasPendingStop) =>
           UNCHANGED <<now, side_vars, ctrl_vars, run_vars, load_vars, idle_vars>>
      ]_vars

\* a toggle was ignored while the model selected during an earlier recording
\* was loading
IgnoredWhileLoading ==
    /\ history.last_toggle = "ignored"
    /\ model_loading
    /\ ~recording
    /\ model_override # NoModel
    /\ rec_seq > 0

\* a step of the main thread out of pc
MainLeaves(pc) == main.pc = pc /\ main' # main

\* C5: a toggle while Recording stops the capture, leaves the controller Idle
\* and goes on to _schedule_transcription with the recorded file, which
\* creates a pending stop for that file whose timer is armed for the 400 ms
\* window, and returns.
StopCreatesPendingStop ==
    [][/\ (ToggleStep /\ recording) =>
              /\ ~recording'
              /\ ~audio'.active
              /\ audio.current_path # NoPath
              /\ main' = [NoCall EXCEPT !.pc = "pending", !.path = audio.current_path]
       /\ MainLeaves("pending") =>
              /\ MainIdle'
              /\ ~recording'
              /\ pending_stop_path' = main.path
              /\ \E t \in stop_timers' :
                     /\ t.id = pending_stop_timer'
                     /\ ~t.fired
                     /\ t.path = pending_stop_path'
                     /\ t.deadline = now + StopCancelWindowMs
      ]_vars

\* a recording has just been stopped: its timer is armed for the full window
JustStopped ==
    /\ history.last_toggle = "stop"
    /\ MainIdle
    /\ ~recording
    /\ HasPendingStop
    /\ \E t \in ArmedStopTimers :
           t.id = pending_stop_timer /\ t.deadline = now + StopCancelWindowMs

\* C6 as stated: a toggle while Idle with no pending stop and no model loading
\* starts the capture and puts the controller in Recording.
StartAlwaysRecords ==
    [][/\ (ToggleStep /\ ~recording /\ ~HasPendingStop /\ ~model_loading) =>
              audio'.active /\ main' = MainAt("started")
       /\ MainLeaves("started") => recording' /\ audio'.active /\ MainIdle'
      ]_vars

\* C6: a toggle while Idle with no pending stop and no model loading calls
\* AudioCapture.start(); when that returns, the capture is active on a file
\* named after the current second and the controller is Recording; when it
\* raises RuntimeError (the recorder was not created, prepared or started),
\* the error is caught and the controller stays Idle with no capture active;
\* when it raises the OSError of mkdir, the error leaves the toggle, nothing
\* was written, and the controller stays Idle with no capture active.
StartRecordsUnlessRaised ==
    [][/\ (ToggleStep /\ ~recording /\ ~HasPendingStop /\ ~model_loading) =>
              \/ /\ history'.last_toggle = "start"
                 /\ main' = MainAt("started")
                 /\ audio'.active
                 /\ audio'.current_path = PathAt(now)
                 /\ FileExists(files', PathAt(now))
              \/ /\ history'.last_toggle = "start_failed"
                 /\ MainIdle'
                 /\ ~recording'
                 /\ ~audio'.active
                 /\ audio'.current_path = PathAt(now)
              \/ /\ history'.last_toggle = "start_propagated"
                 /\ MainIdle'
                 /\ ~recording'
                 /\ ~audio'.active
                 /\ audio' = audio
                 /\ files' = files
       /\ MainLeaves("started") => recording' /\ audio'.active /\ MainIdle'
      ]_vars

\* a recording runs that was started after a start that raised and left no file
StartedAfterFailure ==
    /\ history.last_toggle = "start"
    /\ MainIdle
    /\ recording
    /\ audio.recorder = 2
    /\ \A f \in files : f.rec = 2

\* C7: between two toggles the controller is Recording exactly when the
\* AudioCapture is active (inside a toggle the capture is active first, from
\* the return of start() to `self._recording = True`), and
\* AudioCapture.start() on an active capture raises, creates no file and
\* leaves the object as it was.
RecordingIffActive ==
    /\ MainIdle => (recording <=> audio.active)
    /\ recording => audio.active
    /\ (audio.active /\ ~recording) => main.pc = "started"
    /\ audio.active =>
           \A met \in StartOutcomes :
               LET res == AudioStart(audio, now, met, rec_seq + 1)
               IN  res.raised /\ ~res.created /\ res.audio = audio

\* a capture is running on its second recorder
SecondSessionActive ==
    /\ MainIdle
    /\ recording
    /\ audio.active
    /\ audio.recorder > 1
    /\ audio.current_path # NoPath

\* C8: while a transcription thread is in flight the file it was started for
\* exists: no later toggle deletes it.
DispatchedArtifactKept == \A u \in runs : FileExists(files, u.path)

(* ---------------------------------------------------------------------- *)
(* Properties of the idle unload                                          *)
(* ---------------------------------------------------------------------- *)

\* handler h of _handle_model_idle_timeout takes a step, and goes on to pc
HandlerStep(h) == h \in handlers /\ h \notin handlers'
GoesOn(h, pc) == [h EXCEPT !.pc = pc] \in handlers'

\* a step in which the idle timeout clears the cached model handle
IdleUnloadStep == history'.unloaded # history.unloaded

\* what the idle unload depends on, as the app is now: the time since the
\* last use is at least the threshold, the app is not recording, transcribing
\* or loading a model, and the model last used is the configured one
IdleConditions ==
    /\ ~ElapsedUnder(Monotonic, last_model_use, model_idle_seconds)
    /\ ~recording
    /\ transcribing_count = 0
    /\ ~model_loading
    /\ last_model_id = CurrentModelId

\* handler h ends its tests without unloading: it returns from the locked
\* section, declines at a test, or finds nothing to clear in unload_model
Declines(h) ==
    \/ h.pc = "lock" /\ \A g \in handlers' : g.id # h.id
    \/ GoesOn(h, "reschedule")
    \/ h.pc = "unload" /\ \A g \in handlers' : g.id # h.id

\* C9: with a threshold above 0, a fired idle timer unloads the
\* model if and only if the time since the last use is at least the
\* threshold, the app is not recording, transcribing or loading a model, and
\* the idle-checked model is the configured one (a handler that finds no
\* model loaded has nothing to unload).
IdleUnloadIffConditions ==
    [][\A h \in handlers :
          (HandlerStep(h) /\ model_idle_seconds > 0) =>
              /\ h.pc = "clearing" => IdleConditions
              /\ (Declines(h) /\ holder_model # NoModel) => ~IdleConditions
      ]_vars

\* C10: while the idle threshold is zero no idle timer is armed, once the call
\* that set it has returned, and the idle timeout does not unload the cached
\* model handle.
NoIdleUnloadAtZero ==
    [][/\ (model_idle_seconds' = 0 /\ MainIdle') => idle_timers' = {}
       /\ model_idle_seconds = 0 => ~IdleUnloadStep
      ]_vars

\* C11: the idle timeout never clears the cached model handle while a recording
\* is active, a transcription thread is in flight or a model load is in
\* progress.
NeverUnloadedWhileBusy ==
    [][IdleUnloadStep =>
           /\ ~recording
           /\ transcribing_count = 0
           /\ runs = {}
           /\ ~model_loading
      ]_vars

(* ---------------------------------------------------------------------- *)
(* Properties of the model locks                                          *)
(* ---------------------------------------------------------------------- *)

\* the threads inside holder.get_model, the handlers inside the clearing of the
\* handle, and the threads inside snapshot_download
LoadingTasks == {t \in tasks : t.pc = "loading"}
LoadingRuns == {r \in runs : r.pc = "loading"}
ClearingHandlers == {h \in handlers : h.pc = "clearing"}
DownloadingTasks == {t \in tasks : t.pc \in {"downloading", "warm_downloading"}}
DownloadingRuns == {r \in runs : r.pc = "downloading"}

\* C12: at most one thread is inside a mutation of the shared model handle: a
\* load by _ensure_loaded_model or the clearing by unload_model.
OneHandleMutation ==
    Cardinality(LoadingTasks) + Cardinality(LoadingRuns)
        + Cardinality(ClearingHandlers) <= 1

\* a warmup is loading the model while unload_model waits for the lock
UnloadWaitsForLoad ==
    /\ LoadingTasks # {}
    /\ \E h \in handlers : h.pc = "clear"

\* C13: unload_model clears the handle only when, under the lock, it holds the
\* model it was called for, and a load is started only when, under the lock,
\* the handle does not hold the wanted model.
MutationRechecked ==
    [][/\ \A h \in handlers :
              (HandlerStep(h) /\ h.pc = "clearing" /\ holder_model # NoModel) =>
                  holder_model = h.last_model_id
       /\ \A t \in tasks' : (t.pc = "loading" /\ t \notin tasks) => holder_model # t.model
       /\ \A r \in runs' : (r.pc = "loading" /\ r \notin runs) => holder_model # r.model
      ]_vars

\* C14: at most one thread is inside the download section of ensure_model,
\* and a model that is being downloaded is not yet present, so no model is
\* downloaded twice and no two downloads run together.
DownloadsSerialized ==
    /\ Cardinality(DownloadingTasks) + Cardinality(DownloadingRuns) <= 1
    /\ \A t \in DownloadingTasks : ~ModelPresent(t.model)
    /\ \A r \in DownloadingRuns : ~ModelPresent(r.model)

\* a download is running while another thread is about to ask for the same
\* model
SecondRequestWaits ==
    \E t \in DownloadingTasks :
        \E u \in tasks : u.id # t.id /\ u.model = t.model /\ u.pc \in {"download", "warm"}

(* ---------------------------------------------------------------------- *)
(* Properties of the transcription threads                                *)
(* ---------------------------------------------------------------------- *)

\* the transcription threads past _increment_transcribing and before the
\* `finally` of _transcribe_and_paste
StartedRuns == {r \in runs : r.pc # "begin"}

LastPasted == pasted[Len(pasted)]

\* thread r calls write_transcript_json
RunWrites(r) == RunWrite(r, TRUE) \/ RunWrite(r, FALSE)

\* C16 as stated: when the rewrite call of a run fails, whatever the reason,
\* the run still completes: the record it persists has text and original_text
\* equal to the raw transcript and an empty polished_text, and the raw
\* transcript is what its paste delivers.
RewriteFailureKeepsRaw ==
    [][\A r \in runs :
          r.failed =>
             /\ RunWrites(r)
                   => /\ \E t \in transcripts' :
                            /\ t.id = r.path
                            /\ t.text = r.original_text
                            /\ t.original_text = r.original_text
                            /\ t.polished_text = <<>>
                      /\ [r EXCEPT !.pc = "paste"] \in runs'
             /\ RunCommandV(r) => LastPasted' = r.original_text
      ]_vars

\* C16: when the rewrite call of a run fails, whatever the reason (no key, no
\* base URL, a request that fails, a reply without content), the thread goes
\* on with the raw transcript: it calls write_transcript_json with text and
\* original_text equal to the raw transcript and an empty polished_text; when
\* that call returns, the record of the recording is that one and paste_text
\* puts the raw transcript on the pasteboard, and its Cmd-V pastes what is on
\* the pasteboard 50 ms later; when the call raises, no record is written and
\* nothing is pasted; either way the thread ends and the counter goes down.
RewriteFailureWritesRaw ==
    [][\A r \in runs :
          /\ (/\ RunPostprocess(r)
              /\ r.config.enabled
              /\ ~RequestSent(r.config, keychain))
                => AfterPostprocess(r, Raised) \in runs'
          /\ \A reply \in Replies :
                (/\ RunRequest(r, reply)
                 /\ PostprocessText(r.text, r.config, TRUE, reply).raised)
                   => AfterPostprocess(r, Raised) \in runs'
          /\ AfterPostprocess(r, Raised) =
                [r EXCEPT !.pc = "write", !.polished_text = <<>>, !.failed = TRUE]
          /\ r.failed =>
                /\ r.text = r.original_text
                /\ r.text # <<>>
                /\ r.polished_text = <<>>
                /\ r.pc \in {"write", "paste", "copy", "sleep", "finally"}
                /\ RunWrite(r, TRUE)
                      => /\ \E t \in transcripts' :
                               /\ t.id = r.path
                               /\ t.text = r.original_text
                               /\ t.original_text = r.original_text
                               /\ t.polished_text = <<>>
                         /\ [r EXCEPT !.pc = "paste"] \in runs'
                /\ RunWrite(r, FALSE)
                      => /\ UNCHANGED out_vars
                         /\ [r EXCEPT !.pc = "finally"] \in runs'
                /\ RunPaste(r) => [r EXCEPT !.pc = "copy"] \in runs'
                /\ RunCopy(r) => clipboard' = r.original_text
                /\ RunCommandV(r) => pasted' = Append(pasted, clipboard)
                /\ RunEnd(r) => /\ r \notin runs'
                                /\ transcribing_count' = transcribing_count - 1
      ]_vars

\* the thread of a recording is at its end: its rewrite request failed with
\* the base URL in place, and it has written the raw transcript and pasted it
RawDeliveredAfterFailure ==
    /\ \E r \in runs :
          /\ r.pc = "finally"
          /\ r.failed
          /\ r.config.enabled
          /\ ~BaseUrlEmpty(r.config.base_url)
          /\ r.original_text = Spoken
          /\ \E t \in transcripts :
                /\ t.id = r.path
                /\ t.text = Spoken /\ t.original_text = Spoken /\ t.polished_text = <<>>
    /\ clipboard = Spoken
    /\ pasted = <<Spoken>>

(* ---------------------------------------------------------------------- *)
(* Properties of the hotkey monitor                                       *)
(* ---------------------------------------------------------------------- *)

\* a step that delivers an event to _event_callback
TapStep == tap_count' = tap_count + 1

\* ev is a key-down of the bound key under exactly the bound modifiers
BoundKeyDown(ev) ==
    /\ ev.type = "down"
    /\ ev.keycode = hotkeys.registered.keycode
    /\ ev.flags \cap ModifierMask = hotkeys.registered.modifiers

\* C17: under a key+modifier binding the callback fires exactly once on a
\* key-down of the bound key with exactly the bound modifiers held and the key
\* not tracked as held, on no other event, and never between a firing and the
\* next key-up of the bound key.
KeyBindingFiresOncePerPress ==
    [][(TapStep /\ hotkeys.registered.keycode # NoKeycode)
          => /\ toggles_fired' - toggles_fired \in {0, 1}
             /\ toggles_fired' = toggles_fired + 1
                   <=> (BoundKeyDown(tap_event') /\ ~hotkeys.hotkey_down)
             /\ toggles_fired' # toggles_fired => ~key_history.held_since_fire
      ]_vars

\* the key is held after a firing and its repeat has just been delivered
\* without a second firing
HeldRepeatIgnored ==
    /\ hotkeys.registered.keycode # NoKeycode
    /\ hotkey_changes = 0
    /\ BoundKeyDown(tap_event)
    /\ ~key_history.fired
    /\ key_history.held_since_fire
    /\ toggles_fired = 1

\* the monitor is bound to the function modifier alone since the app started
FnAlone == hotkey_changes = 0 /\ hotkeys.registered = Hotkey({"fn"}, NoKeycode)

\* a step that delivers a press of the function modifier to the monitor bound
\* to the function modifier alone since the app started: a flags event with
\* the bit set while the monitor tracks the modifier as up
FnPressStep ==
    /\ TapStep
    /\ FnAlone
    /\ FnPress(tap_event')

\* the press before this one was at most 200 ms ago, by the clock readings of
\* the two presses
PressedWithinTap == ElapsedWithin(Monotonic, key_history.press_at, FnDoubleTapSeconds)

\* the last press that did not fire was at most 200 ms ago, by the clock
\* readings of the two presses
ArmedWithinTap ==
    /\ key_history.armed_at # NoPress
    /\ ElapsedWithin(Monotonic, key_history.armed_at, FnDoubleTapSeconds)

SegmentsCoverBuffer ==
    (split.pc \in {"walk", "done"} /\ Len(split.audio) > 0)
       => LET ranges == split.ranges
              n == Len(ranges)
          IN  /\ Len(split.segments) = n
              /\ \A i \in 1..n : ranges[i][1] < ranges[i][2]
              /\ n > 0 => ranges[1][1] = 0
              /\ \A i \in 1..(n - 1) : ranges[i + 1][1] = ranges[i][2]
              /\ split.pc = "done" => (n > 0 /\ ranges[n][2] = Len(split.audio))

\* a walk is over that cut a padded buffer at the middle of a silence, before
\* the size cap
CutAtSilence ==
    /\ split.pc = "done"
    /\ split.pad > 0
    /\ Len(split.ranges) >= 2
    /\ split.ranges[1][2] < Min(split.max_seg, Len(split.audio))
    /\ \E k \in 1..Len(split.silence_samples) :
          (split.silence_samples[k][1] + split.silence_samples[k][2]) \div 2
              = split.ranges[1][2]

\* the length of the i-th unpadded range of the walk
RangeLen(i) == split.ranges[i][2] - split.ranges[i][1]

\* the walk has started or is over
Walking == split.pc \in {"walk", "done"}

\* C21 as the spec words it: with a maximum duration above 0, no unpadded range
\* is longer than max_segment_seconds * sample_rate_hz samples.
NoRangeOverMaximum ==
    (Walking /\ split.max_segment_ms > 0)
       => \A i \in 1..Len(split.ranges) :
             RangeLen(i) * MsPerSecond <= split.max_segment_ms * split.sample_rate_hz

\* C21: with a maximum duration above 0, no unpadded range is longer than the
\* larger of max_segment_seconds * sample_rate_hz and min_segment_seconds *
\* sample_rate_hz samples (in whole samples, and at least one sample).
NoRangeOverCap ==
    (Walking /\ split.max_segment_ms > 0)
       => \A i \in 1..Len(split.ranges) :
             \/ RangeLen(i) * MsPerSecond <= split.max_segment_ms * split.sample_rate_hz
             \/ RangeLen(i) * MsPerSecond <= split.min_segment_ms * split.sample_rate_hz
             \/ RangeLen(i) = 1

\* a silent buffer longer than the cap has been walked in ranges of the cap
SilentBufferCapped ==
    /\ split.pc = "done"
    /\ split.max_segment_ms > split.min_segment_ms
    /\ \A k \in 1..Len(split.audio) : split.audio[k] = 0
    /\ Len(split.ranges) >= 2
    /\ RangeLen(1) * MsPerSecond = split.max_segment_ms * split.sample_rate_hz

\* the midpoints of the kept silence runs
Midpoints == { (split.silence_samples[k][1] + split.silence_samples[k][2]) \div 2 :
                  k \in 1..Len(split.silence_samples) }

\* the target end of the iteration that starts at start
TargetEnd(start) == Min(start + split.max_seg, Len(split.audio))

\* the largest member of a non-empty set of positions
Latest(positions) == CHOOSE m \in positions : \A n \in positions : n <= m

\* a step of the walk that appends one range
WalkStep == split.pc = "walk" /\ Len(split'.ranges) = Len(split.ranges) + 1

\* the unpadded range appended by a step of the walk
NewRange == split'.ranges[Len(split'.ranges)]

\* C22 as the spec words it: the cut is the latest midpoint strictly after
\* start + min_segment_seconds * sample_rate_hz and at or before the target end,
\* and the target end when there is none.
CutStrictlyAfterMinimum ==
    [][WalkStep =>
          LET start == split.start
              eligible == { m \in Midpoints :
                              /\ (m - start) * MsPerSecond
                                    > split.min_segment_ms * split.sample_rate_hz
                              /\ m <= TargetEnd(start) }
          IN  /\ NewRange[1] = start
              /\ NewRange[2] = IF eligible # {} THEN Latest(eligible)
                               ELSE TargetEnd(start)]_vars

\* C22: the cut is the latest midpoint of a kept silence run that lies at or
\* after start + min_seg (min_seg being the minimum duration in whole samples,
\* at least one) and at or before the target end; the target end when there is
\* no such midpoint.
CutAtLatestMidpoint ==
    [][WalkStep =>
          LET start == split.start
              eligible == { m \in Midpoints :
                              /\ m - start >= Max(1, TruncDiv(split.min_segment_ms
                                                * split.sample_rate_hz, MsPerSecond))
                              /\ m <= TargetEnd(start) }
          IN  /\ NewRange[1] = start
              /\ NewRange[2] = IF eligible # {} THEN Latest(eligible)
                               ELSE TargetEnd(start)]_vars

\* a range of exactly the minimum length has been cut at a midpoint short of
\* the target end
CutAtMinimumLength ==
    /\ Walking
    /\ split.min_seg >= 2
    /\ \E i \in 1..Len(split.ranges) :
          /\ RangeLen(i) = split.min_seg
          /\ split.ranges[i][2] \in Midpoints
          /\ split.ranges[i][2] < TargetEnd(split.ranges[i][1])

\* the returned (padded) segments are ordered by start and lie in the buffer
SegmentsOrderedInBuffer ==
    /\ \A i \in 1..Len(split.segments) :
          /\ 0 <= split.segments[i][1]
          /\ split.segments[i][1] <= split.segments[i][2]
          /\ split.segments[i][2] <= Len(split.audio)
    /\ \A i, j \in 1..Len(split.segments) :
          i < j => split.segments[i][1] <= split.segments[j][1]

\* C23 as the spec words it: the returned segments are ordered by start, lie
\* within [0, length], and no padded segment overlaps the next one.
PaddedSegmentsDisjoint ==
    split.pc = "done"
       => /\ SegmentsOrderedInBuffer
          /\ \A i \in 1..(Len(split.segments) - 1) :
                split.segments[i][2] <= split.segments[i + 1][1]

\* C23: the returned segments are ordered by start and lie within [0, length];
\* a padded segment overlaps the next one by at most twice the padding (in
\* samples), so the segments are disjoint when the padding is 0.
PaddedSegmentsOverlapBounded ==
    split.pc = "done"
       => /\ SegmentsOrderedInBuffer
          /\ \A i \in 1..(Len(split.segments) - 1) :
                (split.segments[i][2] - split.segments[i + 1][1]) * MsPerSecond
                   <= 2 * split.padding_ms * split.sample_rate_hz

\* two padded segments that share samples have been returned, the second one
\* clamped at the end of the buffer
PaddedSegmentsOverlap ==
    /\ split.pc = "done"
    /\ split.pad > 0
    /\ Len(split.segments) >= 2
    /\ split.segments[1][2] > split.segments[2][1]
    /\ split.ranges[Len(split.ranges)][2] + split.pad > Len(split.audio)

\* the size cap in samples when a maximum duration is set
SizeCap ==
    Max(Max(1, TruncDiv(split.min_segment_ms * split.sample_rate_hz, MsPerSecond)),
        TruncDiv(split.max_segment_ms * split.sample_rate_hz, MsPerSecond))

\* the number of ranges of SizeCap samples needed to cover the buffer
CappedCount == (Len(split.audio) + SizeCap - 1) \div SizeCap

\* C24: an empty buffer yields no segments; a non-empty buffer with no kept
\* silence run yields one segment covering the whole buffer when the maximum
\* duration is 0, and consecutive ranges of the size cap (the last one ending
\* at the end of the buffer) when a maximum duration is set.
EdgeCaseSegments ==
    split.pc = "done"
       => /\ Len(split.audio) = 0 => split.segments = <<>>
          /\ (Len(split.audio) > 0 /\ split.silence_samples = <<>>)
                => IF split.max_segment_ms = 0
                   THEN split.segments = << <<0, Len(split.audio)>> >>
                   ELSE /\ Len(split.ranges) = CappedCount
                        /\ Len(split.segments) = CappedCount
                        /\ \A i \in 1..CappedCount :
                              split.ranges[i] = <<(i - 1) * SizeCap,
                                                  Min(i * SizeCap, Len(split.audio))>>

\* a buffer of speech alone has been returned as several size-capped ranges
SpeechCappedWithoutSilence ==
    /\ split.pc = "done"
    /\ Len(split.audio) > 0
    /\ \A k \in 1..Len(split.audio) : split.audio[k] # 0
    /\ split.silence_samples = <<>>
    /\ split.max_segment_ms > 0
    /\ Len(split.ranges) >= 2
    /\ RangeLen(Len(split.ranges)) < SizeCap

(* ---------------------------------------------------------------------- *)
(* Properties of failures and of the rewrite                              *)
(* ---------------------------------------------------------------------- *)

\* a toggle_recording whose AudioCapture.start() returned a path
StartReturned == rec_seq' # rec_seq /\ history'.last_toggle = "start"

\* C25: the path a successful AudioCapture.start() returns differs from the
\* path every earlier start() returned (each of which names a file record).
StartReturnsFreshPath ==
    [][StartReturned => \A f \in files : f.path # audio'.current_path]_vars

\* a toggle_recording whose AudioCapture.start() raised
StartRaised ==
    /\ rec_seq' # rec_seq
    /\ history'.last_toggle \in {"start_failed", "start_propagated"}

\* C26 as stated: when AudioCapture.start() raises in a toggle from Idle, the
\* error does not leave toggle_recording, and the toggle returns with the
\* controller Idle, the capture inactive, no pending stop made, and a
\* start() that follows does not raise "already active".
FailedStartNeverPropagates ==
    [][StartRaised =>
          /\ history'.last_toggle = "start_failed"
          /\ MainIdle'
          /\ ~recording /\ ~recording'
          /\ ~audio'.active
          /\ pending_stop_timer' = NoTimer
          /\ pending_stop_path' = NoPath
          /\ ~AudioStart(audio', now', "started", rec_seq' + 1).raised
      ]_vars

\* C26: when AudioCapture.start() raises in a toggle from Idle, the toggle
\* ends with the controller Idle, the capture inactive, no pending stop,
\* no timer and no transcription thread made, and a start() that follows
\* does not raise "already active"; the RuntimeError of the recorder is
\* caught in the toggle, the OSError of mkdir leaves it and nothing of the
\* capture or of the files has changed.
FailedStartLeavesIdle ==
    [][StartRaised =>
          /\ history'.last_toggle = "start_propagated" =>
                 audio' = audio /\ files' = files
          /\ MainIdle'
          /\ ~recording /\ ~recording'
          /\ ~audio'.active
          /\ pending_stop_timer' = NoTimer
          /\ pending_stop_path' = NoPath
          /\ stop_timers' = stop_timers
          /\ runs' = runs
          /\ ~AudioStart(audio', now', "started", rec_seq' + 1).raised
      ]_vars

\* a start raised after an earlier recording was made, and the controller is Idle
FailedStartAfterRecording ==
    /\ history.last_toggle \in {"start_failed", "start_propagated"}
    /\ MainIdle
    /\ ~recording
    /\ ~audio.active
    /\ audio.recorder = 1
    /\ rec_seq = 2

\* C27: when snapshot_download or holder.get_model raises in a warmup, a
\* download or a transcription, the handle is left as it was and does not hold
\* the model; after a failed download the model does not count as present, so
\* the next ensure_model downloads it again.
FailedLoadNotPresent ==
    [][/\ \A t \in tasks :
             /\ FineTaskFetch(t, FALSE)
                   => /\ holder_model' = holder_model
                      /\ t.model \notin downloaded'
                      /\ t.model \notin partial'
             /\ FineTaskLoad(t, FALSE)
                   => /\ holder_model' = holder_model
                      /\ holder_model' # t.model
       /\ \A r \in runs :
             /\ FineRunFetch(r, FALSE)
                   => /\ holder_model' = holder_model
                      /\ r.model \notin downloaded'
                      /\ r.model \notin partial'
                      /\ r \notin runs'
             /\ FineRunLoad(r, FALSE)
                   => /\ holder_model' = holder_model
                      /\ holder_model' # r.model
                      /\ r \notin runs'
      ]_vars

\* a result _extract_text does not take: neither a dict with a "text" entry
\* nor a str
Malformed(result) ==
    \/ result.kind = "other"
    \/ result.kind = "dict" /\ ~result.has_text

\* C28: when transcribe_audio raises (inference fails or the result is
\* malformed; also when the model is unavailable), the thread ends: no
\* transcript record is written, nothing is pasted, the audio file is left as
\* it is and the in-flight counter goes down by one.
FailedTranscriptionIsolated ==
    [][\A r \in runs :
          /\ \A result \in Transcriptions :
                (/\ result.kind = "raised" \/ Malformed(result)
                 /\ FineRunInfer(r, result))
                   => /\ transcripts' = transcripts
                      /\ clipboard' = clipboard
                      /\ pasted' = pasted
                      /\ files' = files
                      /\ [r EXCEPT !.pc = "finally"] \in runs'
          /\ (r.pc = "finally" /\ r \notin runs')
                => /\ transcripts' = transcripts
                   /\ clipboard' = clipboard
                   /\ pasted' = pasted
                   /\ files' = files
                   /\ transcribing_count > 0
                   /\ transcribing_count' = transcribing_count - 1
                   /\ \A u \in runs' : u \in runs
      ]_vars

\* the thread of a recording has loaded the model and ended without a record
\* or a paste, the file of the recording still there
FailedRunLeftArtifact ==
    /\ history.dispatched[1] = 1
    /\ runs = {}
    /\ holder_model # NoModel
    /\ transcripts = {}
    /\ clipboard = <<>>
    /\ pasted = <<>>
    /\ transcribing_count = 0
    /\ \E f \in files : f.rec = 1 /\ f.exists

\* a postprocess_text call that was to fail for one of the three reasons
CannotRewrite ==
    \/ ~rewrite.config.enabled
    \/ rewrite.api_key = Some(FALSE)
    \/ rewrite.config.model = ""

\* C29 as the spec words it: a call with post-processing disabled, without a
\* key or without a model name raises, and sends no request.
RewriteRaisesWhenUnconfigured ==
    (rewrite.pc = "done" /\ CannotRewrite)
       => rewrite.result.raised /\ ~rewrite.requested

\* C29: a call with post-processing disabled returns the text it was given;
\* a call with it enabled raises when there is no key or no model name; in
\* none of the three cases is a request sent.
RewriteRaisesUnlessDisabled ==
    (rewrite.pc = "done" /\ CannotRewrite)
       => /\ ~rewrite.requested
          /\ IF rewrite.config.enabled
             THEN rewrite.result.raised
             ELSE rewrite.result = Returned(rewrite.text)

\* an enabled call with a key, a base URL and no model name has raised
RaisedWithoutModel ==
    /\ rewrite.pc = "done"
    /\ rewrite.config.enabled
    /\ rewrite.api_key = Some(TRUE)
    /\ rewrite.config.model = ""
    /\ ~BaseUrlEmpty(rewrite.config.base_url)
    /\ rewrite.reply.kind = "json"
    /\ rewrite.result.raised

\* C30: a call whose request was answered with JSON returns the content of
\* the first choice's message, or else its flat text, without the transcript
\* tags, and raises when that content is empty: the text returned is not
\* empty and holds no tag.
RewriteReturnsUntagged ==
    (rewrite.pc = "done" /\ rewrite.requested /\ rewrite.reply.kind = "json")
       => LET output == ExtractResponseText(rewrite.reply)
          IN  IF output = <<>>
              THEN rewrite.result.raised
              ELSE /\ ~rewrite.result.raised
                   /\ rewrite.result.text # <<>>
                   /\ \A k \in 1..Len(rewrite.result.text) :
                         rewrite.result.text[k] \notin {OpenTag, CloseTag}

(* ---------------------------------------------------------------------- *)
(* Properties of stale timers, idle timers and the loading flag           *)
(* ---------------------------------------------------------------------- *)

\* the callback of debounce timer t takes the pending stop and goes on to
\* start a transcription thread
Dispatches(t) == FinalizeTranscription(t) /\ FinalizeMatches(t.path)

\* C31: a transcription thread is started only by the callback of the timer
\* the current pending stop holds, after that pending stop's own window; the
\* callback of a timer that was cancelled or replaced starts none.
StaleTimerNeverDispatches ==
    [][\A t \in stop_timers :
          Dispatches(t) => /\ t.id = pending_stop_timer
                           /\ now >= t.deadline
      ]_vars

\* handler h of _handle_model_idle_timeout declines at one of its three tests
IdleDeclines(h) ==
    \/ IdleTimeCheck(h) /\ IdleTooEarly(h)
    \/ IdleBusyCheck(h) /\ IdleRecording
    \/ IdleTranscribingCheck(h) /\ IdleTranscribing
    \/ IdleLoadingCheck(h) /\ IdleLoading
    \/ IdleModelCheck(h) /\ IdleOtherModel(h)

\* the timer the app held is cancelled and forgotten by this step
IdleTimerDropped ==
    /\ model_idle_timer' = NoTimer
    /\ idle_timers' \subseteq idle_timers
    /\ \A t \in idle_timers' : t.id # model_idle_timer

\* the idle timer armed by this step, for the threshold as it is now
NewIdleTimerArmed ==
    /\ model_idle_timer' # NoTimer
    /\ model_idle_timer' # model_idle_timer
    /\ \E t \in idle_timers' :
          /\ t.id = model_idle_timer'
          /\ t.deadline = now + model_idle_seconds * MsPerSecond
    /\ \A t \in idle_timers' : t.id = model_idle_timer' \/ t.id # model_idle_timer

\* C32 as the spec words it: a handler that started with a positive threshold
\* and declines unloads nothing and arms a new idle timer.
DeclineAlwaysRearms ==
    [][\A h \in handlers :
          /\ IdleDeclines(h) => /\ holder_model' = holder_model
                                /\ history'.unloaded = history.unloaded
                                /\ GoesOn(h, "reschedule")
          /\ IdleReschedule(h) => /\ holder_model' = holder_model
                                  /\ history'.unloaded = history.unloaded
                                  /\ IdleTimerDropped
                                  /\ GoesOn(h, "arm")
          /\ IdleArm(h) => /\ holder_model' = holder_model
                           /\ history'.unloaded = history.unloaded
                           /\ h \notin handlers'
                           /\ NewIdleTimerArmed
      ]_vars

\* C32: a handler that started with a positive threshold and declines unloads
\* nothing and goes on to reschedule: it cancels the timer the app holds and,
\* when the threshold is still positive as it tests it, arms a new idle timer
\* for the threshold as it reads it then; when the threshold has been set to
\* 0 before that test, it arms none.
DeclineRearmsUnlessDisabled ==
    [][\A h \in handlers :
          /\ IdleDeclines(h) => /\ holder_model' = holder_model
                                /\ history'.unloaded = history.unloaded
                                /\ GoesOn(h, "reschedule")
          /\ IdleReschedule(h) => /\ holder_model' = holder_model
                                  /\ history'.unloaded = history.unloaded
                                  /\ IdleTimerDropped
                                  /\ IF model_idle_seconds > 0
                                     THEN GoesOn(h, "arm")
                                     ELSE h \notin handlers' /\ idle_seq' = idle_seq
          /\ IdleArm(h) => /\ holder_model' = holder_model
                           /\ history'.unloaded = history.unloaded
                           /\ h \notin handlers'
                           /\ NewIdleTimerArmed
      ]_vars

\* an idle check has declined and armed the timer the app now holds: nothing
\* has used the model or changed the threshold since the clock started
RearmedAfterDecline ==
    /\ now > 0
    /\ handlers = {}
    /\ idle_changes = 0
    /\ last_model_use = 0
    /\ last_model_id # NoModel
    /\ history.unloaded = 0
    /\ \E t \in idle_timers :
          /\ t.id = model_idle_timer
          /\ t.deadline = now + model_idle_seconds * MsPerSecond

\* C33: at most one idle timer is armed at any time, and it is the one the
\* app holds: _mark_model_used, set_model_idle_minutes and the reschedule of
\* the idle check each cancel the timer held before they arm another.
OneIdleTimerArmed ==
    /\ Cardinality(idle_timers) <= 1
    /\ \A t \in idle_timers : t.id = model_idle_timer

\* a second idle timer has been armed before the first could fire, and it is
\* the only one armed
IdleTimerReplaced ==
    /\ now = 0
    /\ idle_seq >= 2
    /\ model_idle_timer = idle_seq
    /\ Cardinality(idle_timers) = 1

\* the binding is a set of modifiers without a key, other than the function
\* modifier alone, and has been the binding since the app started
ModifierOnlyBinding ==
    /\ hotkey_changes = 0
    /\ hotkeys.registered.keycode = NoKeycode
    /\ hotkeys.registered.modifiers # {"fn"}

\* the event just delivered brings the held modifiers to exactly the bound
\* ones, from something else
MaskBecomesBound ==
    /\ tap_event'.type = "flags"
    /\ tap_event'.flags \cap ModifierMask = hotkeys.registered.modifiers
    /\ key_history.mask # hotkeys.registered.modifiers

\* C34: under a modifier-only binding the callback fires exactly once when a
\* flags event brings the held modifiers from something else to exactly the
\* bound ones, and on no other event: not while they stay the bound ones, not
\* with another modifier held too, not on a key-down or key-up.
ModifierBindingFiresOnTransition ==
    [][(TapStep /\ ModifierOnlyBinding)
          => /\ toggles_fired' - toggles_fired \in {0, 1}
             /\ toggles_fired' = toggles_fired + 1 <=> MaskBecomesBound
      ]_vars

\* the bound modifier has fired once, another modifier was then held with it,
\* and a key-down under both has just been delivered: nothing more has fired
ExtraModifierIgnored ==
    /\ ModifierOnlyBinding
    /\ hotkeys.registered.modifiers = {"ctrl"}
    /\ toggles_fired = 1
    /\ key_history.mask = {"ctrl", "fn"}
    /\ tap_event.type = "down"
    /\ ~key_history.fired
    /\ ~hotkeys.hotkey_down

(* ---------------------------------------------------------------------- *)
(* Properties of loading, delivery and the loading flag                   *)
(* ---------------------------------------------------------------------- *)

\* the thread has passed a test of _ensure_loaded_model that found the wanted
\* model in the handle
TaskFoundLoaded(t) == (FineTaskCheck(t) \/ FineTaskAcquire(t)) /\ HolderHas(t.model)
RunFoundLoaded(r) == (FineRunCheck(r) \/ FineRunAcquire(r)) /\ HolderHas(r.model)

\* C35: a request for the model the handle already holds performs no load: it
\* leaves the handle alone and goes on without entering the load; and every
\* load that completes found the handle without the model, so that requests
\* made together for one model load it once.
LoadedOncePerModel ==
    [][/\ \A t \in tasks :
              TaskFoundLoaded(t) =>
                  /\ holder_model' = holder_model
                  /\ LoadingTasks' = LoadingTasks
       /\ \A r \in runs :
              RunFoundLoaded(r) =>
                  /\ holder_model' = holder_model
                  /\ LoadingRuns' = LoadingRuns
       /\ \A t \in tasks : FineTaskLoad(t, TRUE) => ~HolderHas(t.model)
       /\ \A r \in runs : FineRunLoad(r, TRUE) => ~HolderHas(r.model)
      ]_vars

\* two warmups asked for the same model together: the second found the handle
\* empty before the lock, the first has loaded the model since, and the second
\* still waits for the lock
SecondRequestFindsLoaded ==
    \E t \in tasks :
        /\ t.pc = "lockwait"
        /\ HolderHas(t.model)
        /\ \E u \in tasks : u.id # t.id /\ u.model = t.model /\ u.pc = "finish"

\* C36: the walk ends for every buffer and every combination of parameters:
\* each iteration moves start forward, by at least one sample and never past
\* the end of the buffer, so there are at most as many iterations as samples;
\* the loop is never left by its `break`, so the walk is over only with start
\* at the end of the buffer; and while it is not over, an iteration or the
\* return is possible.
WalkTerminates ==
    /\ [][SplitStep => /\ split'.pc = "walk"
                       /\ split'.start > split.start
                       /\ split'.start <= Len(split.audio)
                       /\ Len(split'.ranges) = Len(split.ranges) + 1 ]_vars
    /\ [](Walking => Len(split.ranges) <= Len(split.audio))
    /\ [](split.pc = "done" => split.start = Len(split.audio))
    /\ [](split.pc = "walk" => ENABLED (SplitStep \/ SplitReturn))

\* a walk has ended with the maximum duration smaller than the minimum, after
\* more than one iteration
WalkEndedMaxBelowMin ==
    /\ split.pc = "done"
    /\ split.max_segment_ms > 0
    /\ split.max_segment_ms < split.min_segment_ms
    /\ Len(split.ranges) >= 2
    /\ split.start = Len(split.audio)

\* the record persisted for the recording of run r
RecordOf(r) == {t \in transcripts : t.id = r.path}

\* C37: the text a run pastes is the text field of the record persisted for
\* its recording, which is there before the paste; that text is the rewritten
\* text when the rewrite returned and the raw transcript otherwise; and a run
\* whose text is empty pastes nothing.  (Two recordings started within one
\* second share a path and so a record: the run of one can replace the record
\* between the write and the paste of the other.)
PastedTextIsRecorded ==
    [][\A r \in runs :
          /\ RunCommandV(r)
                => /\ LastPasted' = r.text
                   /\ RecordOf(r) # {}
                   /\ \A t \in RecordOf(r) : t.text = LastPasted'
          /\ (RunPaste(r) /\ r.text = <<>>)
                => /\ clipboard' = clipboard
                   /\ pasted' = pasted
                   /\ [r EXCEPT !.pc = "finally"] \in runs'
          /\ RunWrite(r, TRUE)
                => \E t \in transcripts' :
                      /\ t.id = r.path
                      /\ t.original_text = r.original_text
                      /\ t.text = IF r.polished_text # <<>>
                                  THEN t.polished_text
                                  ELSE r.original_text
      ]_vars

\* the total memory was read and is under 16 GiB
UnderSixteenGiB == total_memory_kib >= 0 /\ total_memory_kib < LowMemoryKiB

\* the handle comes to hold a model
HandleLoaded == holder_model' \notin {holder_model, NoModel}

\* C38: with a total memory under 16 GiB the threads started at startup and by
\* a change of the selected model only fetch the files: none of them is a
\* warmup or enters _ensure_loaded_model, and the handle is loaded only by a
\* transcription thread; with 16 GiB or more, or a memory size that could not
\* be read, every such thread is a warmup, the one of startup included.
PrefetchOnlyUnderSixteenGiB ==
    /\ [](UnderSixteenGiB =>
             \A t \in tasks :
                 ~t.warmup /\ t.pc \in {"download", "downloading", "finish", "clear"})
    /\ [][(UnderSixteenGiB /\ HandleLoaded) => \E r \in runs : FineRunLoad(r, TRUE)]_vars
    /\ [](~UnderSixteenGiB =>
             /\ \A t \in tasks : t.warmup
             /\ (warmup_id = 1 /\ model_loading) => \E t \in tasks : t.id = 1)

\* one KiB under 16 GiB: the model was fetched at startup and the handle was
\* empty until the first transcription, which has loaded it
FirstLoadInTranscription ==
    /\ total_memory_kib = LowMemoryKiB - 1
    /\ tasks = {}
    /\ warmup_id = 1
    /\ \E r \in runs : r.pc = "infer" /\ HolderHas(r.model)

\* the thread started last, while it runs
NewestTask == {t \in tasks : t.id = warmup_id}

\* C39: the loading flag is true while the thread started last has not ended;
\* a thread that is not the newest leaves the flag as it is when it ends after
\* the flag was set for a newer one (running, or about to be started); and
\* the flag is false when every thread started has ended and no call is
\* about to start another.
LoadingFlagAccurate ==
    /\ [](NewestTask # {} => model_loading)
    /\ [][\A t \in tasks :
              (/\ t \notin NewestTask
               /\ tasks' = tasks \ {t}
               /\ NewestTask # {} \/ main.pc = "downloaded")
                 => model_loading' = model_loading]_vars
    /\ []((tasks = {} /\ MainIdle) => ~model_loading)

\* nothing is going on in the app: no recording, no pending stop, no
\* transcription, download or warmup thread, and the loading flag is off
Quiet ==
    /\ MainIdle
    /\ ~recording
    /\ ~HasPendingStop
    /\ stop_timers = {}
    /\ runs = {}
    /\ transcribing_count = 0
    /\ tasks = {}
    /\ ~model_loading

\* C40: with a positive threshold a model held by the handle of a quiet app
\* is unloaded in the end, also when the selected model was changed after the
\* held one was last used.  In a quiet app whose configuration stays as it is
\* only the clock, the idle timer and its handler take steps, and a handler
\* that declines leaves the state it read as it was: the model is unloaded in
\* the end exactly if the handler that finds the idle time elapsed goes on to
\* unload_model and unload_model clears the handle.
IdleUnloadsWhenQuiet ==
    [][\A h \in handlers :
          (/\ HandlerStep(h)
           /\ Quiet
           /\ model_idle_seconds > 0
           /\ holder_model # NoModel)
          => /\ h.pc = "model" => GoesOn(h, "unload")
             /\ h.pc = "unload" => GoesOn(h, "clear")
      ]_vars

====
